---- MODULE Spec2Model ----
(***************************************************************************)
(* Settlement engine of Sist-Alici: SalesService (sales, voids, advance    *)
(* orders) over the relational store reached through withTursoTransaction. *)
(*                                                                         *)
(* Representation.                                                         *)
(*  - A JavaScript number that holds a currency amount (a price, a payment *)
(*    amount, a deposit) is an integer count of thousandths of the unit,   *)
(*    so that toCents really rounds.  Integer cents are plain integers.    *)
(*  - An exchange rate is an integer count of tenths.                      *)
(*  - An optional value (undefined / NULL) is the empty sequence, a        *)
(*    present value v is <<v>>.                                            *)
(*  - The store is the record db, one field per table.  Child tables are   *)
(*    sequences of rows in insertion order.  Foreign keys are enforced as  *)
(*    the schema declares them (ON DELETE CASCADE for the children of      *)
(*    ventas, no action for encargos.venta_id).                            *)
(*  - randomUUID is a counter: an id is never handed out twice.            *)
(*  - tx holds the settlements in flight of the specification that         *)
(*    interleaves them statement by statement (SpecConcurrente); in Spec   *)
(*    every operation runs its transaction alone and tx stays idle.        *)
(*  - servicio holds the fields of the SalesService instance that its      *)
(*    constructor sets: the fallback rate, and whether the INSERT of the   *)
(*    default rate the constructor fires without awaiting is still on its  *)
(*    way.                                                                 *)
(***************************************************************************)
EXTENDS Integers, Sequences, FiniteSets, TLC

VARIABLES db, last, uuid, tx, servicio

vars == <<db, last, uuid, tx, servicio>>

(* ------------------------------ bounds --------------------------------- *)

\* Initial available quantity of product P.
MaxStock == 3
\* Sale ids handed out over a behaviour.
MaxVentas == 2
\* Settlements in flight at once.
MaxTx == 2
\* Order ids handed out over a behaviour.
MaxEncargos == 1
\* Deposits accepted per order.
MaxAbonos == 1

(* ----------------------------- optionals ------------------------------- *)

None == <<>>

Some(v) == <<v>>

IsSome(o) == o # <<>>

Val(o) == o[1]

\* a ?? b
Coalesce(a, b) == IF IsSome(a) THEN a ELSE b

(* ----------------------------- JSON columns ---------------------------- *)

\* A TEXT column that holds JSON is NULL, a text JSON.parse throws on (or a
\* blank one), or the text of a value.
Nulo == [kind |-> "null"]

TextoInvalido == [kind |-> "text", valid |-> FALSE]

\* JSON.stringify(value), as the column value it is stored in.
JSONstringify(value) == [kind |-> "text", valid |-> TRUE, value |-> value]

\* SalesService.parseJsonField: the parsed value, undefined for a column
\* that is not a string, is blank, or does not parse.
parseJsonField(column) ==
  IF column.kind = "text" /\ column.valid THEN Some(column.value) ELSE None

(* ------------------------------- money --------------------------------- *)

\* Math.round(n / d) for d > 0: nearest integer, ties towards +infinity.
MathRound(n, d) == (2 * n + d) \div (2 * d)

\* toCents: Math.round(value * 100), value in thousandths.
toCents(value) == MathRound(value, 10)

\* fromCents: cents back to an amount (thousandths).
fromCents(cents) == cents * 10

\* pago.moneda.trim().toUpperCase() on the currency codes the inputs use.
NormalizarMoneda(m) ==
  CASE m \in {"usd", " usd ", "USD"} -> "USD"
    [] m \in {"nio", "NIO"} -> "NIO"
    [] m = "eur" -> "EUR"
    [] OTHER -> m

\* convertirPagoACents that drops the fraction of a cent instead of rounding.
convertirPagoTruncando(pago, tasaCambioBase) ==
  IF NormalizarMoneda(pago.moneda) = "USD"
    THEN (pago.cantidad * Val(Coalesce(pago.tasa, Some(tasaCambioBase)))) \div 100
    ELSE toCents(pago.cantidad)

\* SalesService.convertirPagoACents, after its cantidad <= 0 guard:
\* the base-currency cents of one payment line.
convertirPagoACents(pago, tasaCambioBase) ==
  IF NormalizarMoneda(pago.moneda) = "USD"
    THEN MathRound(pago.cantidad * Val(Coalesce(pago.tasa, Some(tasaCambioBase))), 100)
    ELSE toCents(pago.cantidad)

(* ------------------------------ helpers -------------------------------- *)

RECURSIVE SumSeq(_)
SumSeq(s) == IF s = <<>> THEN 0 ELSE Head(s) + SumSeq(Tail(s))

MapSeq(s, F(_)) == [i \in 1..Len(s) |-> F(s[i])]

Min(a, b) == IF a < b THEN a ELSE b

\* Index of the first element of s satisfying T, 0 when there is none.
FirstIndex(s, T(_)) ==
  IF \E i \in 1..Len(s) : T(s[i])
    THEN CHOOSE i \in 1..Len(s) : T(s[i]) /\ \A j \in 1..(i - 1) : ~T(s[j])
    ELSE 0

\* The row set of a keyed table after inserting row under key id.
Insertar(tabla, id, fila) ==
  [k \in (DOMAIN tabla) \cup {id} |-> IF k = id THEN fila ELSE tabla[k]]

\* The row set of a keyed table after deleting key id.
Borrar(tabla, id) == [k \in (DOMAIN tabla) \ {id} |-> tabla[k]]

\* The rows of a child table that belong to parent id, in insertion order.
FilasDe(filas, campo, id) == SelectSeq(filas, LAMBDA f : f[campo] = id)

\* String.prototype.trim on the names the inputs use.
Trim(t) == IF t \in {"", " "} THEN "" ELSE t

(* --------------------------- configuration ----------------------------- *)

\* A JavaScript number that is not an amount: a finite number (a rate, in
\* tenths), NaN, an infinity.
Num(n) == [t |-> "number", v |-> n]

NaN == [t |-> "nan"]

Infinity == [t |-> "infinity"]

\* Number.isFinite(x): x is a number and neither NaN nor an infinity.
NumberIsFinite(x) == x.t = "number"

\* x > 0 on JavaScript numbers: false for NaN, true for the infinity.
MayorQueCero(x) ==
  \/ x.t = "infinity"
  \/ x.t = "number" /\ x.v > 0

\* The value column of the config row 'tasaCambio' is text.  The model
\* keeps, for a row, the number Number(value) makes of its text: String(n)
\* gives n back, a text that is not a numeral gives NaN.  db.config is None
\* when the row is absent.

\* TASA_CAMBIO_BASE as sales.controller.ts hands it to the constructor
\* (tenths).
TasaCambioEnv == Some(20)

\* SalesService.constructor lines 32-39: the fallback is kept, and the INSERT
\* of the default rate fired, only for a config.tasaCambio that is truthy and
\* > 0.
SalesService(config) ==
  LET conTasa == IsSome(config) /\ Val(config) # 0 /\ Val(config) > 0
  IN [tasaCambioFallback |-> IF conTasa THEN config ELSE None,
      sembrar |-> conTasa]

\* this.tasaCambioFallback (tenths).
tasaCambioFallback == servicio.tasaCambioFallback

\* ensureDefaultExchangeRate lines 475-482:
\* INSERT INTO config ... ON CONFLICT(key) DO NOTHING
ensureDefaultExchangeRate(d, tasaCambio) ==
  IF IsSome(d.config) THEN d ELSE [d EXCEPT !.config = Some(Num(tasaCambio))]

\* obtenerTasaCambio that prefers the fallback of the instance to the store.
obtenerTasaCambioFallbackPrimero(d) ==
  IF IsSome(tasaCambioFallback) /\ Val(tasaCambioFallback) > 0
    THEN Val(tasaCambioFallback)
  ELSE IF IsSome(d.config) /\ NumberIsFinite(Val(d.config))
          /\ MayorQueCero(Val(d.config))
    THEN Val(d.config).v
  ELSE 10

\* SalesService.obtenerTasaCambio lines 454-473: the store's value when it
\* is finite and > 0, else the fallback when > 0, else 1.
obtenerTasaCambio(d) ==
  IF IsSome(d.config) /\ NumberIsFinite(Val(d.config))
       /\ MayorQueCero(Val(d.config))
    THEN Val(d.config).v
  ELSE IF IsSome(tasaCambioFallback) /\ Val(tasaCambioFallback) > 0
    THEN Val(tasaCambioFallback)
  ELSE 10

(* ------------------------------ pricing -------------------------------- *)

\* producto.precioVenta ?? producto.precioUnitario
\* PrecioBase that knows the sale price only.
PrecioBaseSoloVenta(producto) == producto.precioVenta

PrecioBase(producto) == Coalesce(producto.precioVenta, producto.precioUnitario)

(* -------------------------- SalesService.crearVenta -------------------- *)

\* NormalizarPago that keeps the rate supplied on a line that is not USD.
NormalizarPagoConTasa(pago, tasaCambioBase) ==
  IF NormalizarMoneda(pago.moneda) = "USD"
    THEN [moneda |-> "USD", cantidad |-> pago.cantidad,
          tasa |-> Some(Val(Coalesce(pago.tasa, Some(tasaCambioBase))))]
    ELSE [moneda |-> NormalizarMoneda(pago.moneda), cantidad |-> pago.cantidad,
          tasa |-> pago.tasa]

\* crearVenta lines 321-331: one normalised payment line.
NormalizarPago(pago, tasaCambioBase) ==
  IF NormalizarMoneda(pago.moneda) = "USD"
    THEN [moneda |-> "USD", cantidad |-> pago.cantidad,
          tasa |-> Some(Val(Coalesce(pago.tasa, Some(tasaCambioBase))))]
    ELSE [moneda |-> NormalizarMoneda(pago.moneda), cantidad |-> pago.cantidad,
          tasa |-> None]

\* crearVenta lines 322-327: a USD line whose effective rate is <= 0.
TasaInvalida(pago, tasaCambioBase) ==
  /\ NormalizarMoneda(pago.moneda) = "USD"
  /\ Val(Coalesce(pago.tasa, Some(tasaCambioBase))) <= 0

\* ErrorItem without the comparison of the quantity with the stock.
ErrorItemSinStock(productos, item) ==
  IF item.cantidad <= 0 THEN "CantidadInvalida"
  ELSE IF item.productoId \notin DOMAIN productos THEN "ProductoNoEncontrado"
  ELSE IF ~IsSome(PrecioBase(productos[item.productoId])) THEN "PrecioNoDefinido"
  ELSE "OK"

\* crearVenta lines 335-347: the check that rejects one cart line, "OK" when
\* the line passes, against the products as read inside the transaction.
ErrorItem(productos, item) ==
  IF item.cantidad <= 0 THEN "CantidadInvalida"
  ELSE IF item.productoId \notin DOMAIN productos THEN "ProductoNoEncontrado"
  ELSE IF productos[item.productoId].stockDisponible < item.cantidad
    THEN "StockInsuficiente"
  ELSE IF ~IsSome(PrecioBase(productos[item.productoId])) THEN "PrecioNoDefinido"
  ELSE "OK"

\* crearVenta lines 333-359: the rejection of Promise.all over the lines.
\* A non-positive quantity throws before the line's first await, so it is
\* the first rejection; the other checks reject in line order.
ErrorItems(productos, items) ==
  IF \E i \in 1..Len(items) : items[i].cantidad <= 0 THEN "CantidadInvalida"
  ELSE LET F(it) == ErrorItem(productos, it) # "OK"
           i == FirstIndex(items, F)
       IN IF i = 0 THEN "OK" ELSE ErrorItem(productos, items[i])

\* crearVenta lines 349-357: the priced line.  producto is the line's own
\* copy of the product row, so the line carries the stock it read.
Detalle(productos, item) ==
  LET producto == productos[item.productoId]
      precioUnitarioCents == toCents(Val(PrecioBase(producto)))
  IN [productoId |-> item.productoId,
      stockLeido |-> producto.stockDisponible,
      cantidad |-> item.cantidad,
      precioUnitarioCents |-> precioUnitarioCents,
      subtotalCents |-> precioUnitarioCents * item.cantidad]

\* DescuentoAplicado without the cap at the gross total.
DescuentoSinTope(descuentoInput, totalVentaCents) == descuentoInput

\* crearVenta line 366: Math.min(Math.round(descuentoInput), totalVentaCents)
DescuentoAplicado(descuentoInput, totalVentaCents) ==
  Min(descuentoInput, totalVentaCents)

\* TotalPagadoCents that counts every line at face value, whatever its
\* currency.
TotalPagadoSinConvertir(pagosNormalizados, tasaCambioBase) ==
  LET F(p) == toCents(p.cantidad)
  IN SumSeq(MapSeq(pagosNormalizados, F))

\* crearVenta lines 368-371: the payments in base-currency cents.
TotalPagadoCents(pagosNormalizados, tasaCambioBase) ==
  LET F(p) == convertirPagoACents(p, tasaCambioBase)
  IN SumSeq(MapSeq(pagosNormalizados, F))

\* crearVenta lines 377-384: each line writes (the stock it read) - (its
\* quantity) to its product, in line order.
RECURSIVE DescontarStock(_, _)
DescontarStock(productos, detalles) ==
  IF detalles = <<>> THEN productos
  ELSE LET d == Head(detalles)
       IN DescontarStock(
            [productos EXCEPT ![d.productoId].stockDisponible =
                                  d.stockLeido - d.cantidad],
            Tail(detalles))

\* DescuentoNegativo that lets every discount through.
DescuentoCualquiera(descuentoInput) == FALSE

\* crearVenta lines 363-365: the guard that throws on the discount.
DescuentoNegativo(descuentoInput) == descuentoInput < 0

\* PagoNoPositivo that lets a zero amount through.
PagoNegativo(pago) == pago.cantidad < 0

\* convertirPagoACents lines 872-874: the guard that throws on a payment
\* line, whatever its currency.
PagoNoPositivo(pago) == pago.cantidad <= 0

\* crearVenta lines 321-375: the error the call throws, "OK" when it passes
\* every validation.
ErrorCrearVenta(d, items, pagos, tasaCambioBase, options) ==
  LET T(p) == TasaInvalida(p, tasaCambioBase)
      N(p) == NormalizarPago(p, tasaCambioBase)
      S(it) == Detalle(d.productos, it).subtotalCents
      B(p) == PagoNoPositivo(p)
  IN IF FirstIndex(pagos, T) # 0 THEN "TasaInvalida"
     ELSE IF ErrorItems(d.productos, items) # "OK"
       THEN ErrorItems(d.productos, items)
     ELSE IF DescuentoNegativo(Val(Coalesce(options.descuentoCents, Some(0))))
       THEN "DescuentoNegativo"
     ELSE IF FirstIndex(pagos, B) # 0 THEN "PagoInvalido"
     ELSE LET totalVentaCents == SumSeq(MapSeq(items, S))
              descuentoCents ==
                DescuentoAplicado(Val(Coalesce(options.descuentoCents, Some(0))),
                                  totalVentaCents)
          IN IF TotalPagadoCents(MapSeq(pagos, N), tasaCambioBase)
                  < totalVentaCents - descuentoCents
               THEN "PagoInsuficiente"
               ELSE "OK"

\* crearVenta lines 377-447: the store after the writes of a call that passed
\* its validations, the sale getting id ventaId.  The columns items and
\* pagos of ventas hold JSON.stringify of the sale's lines and payments.
EscribirVenta(d, ventaId, items, pagos, usuarioId, tasaCambioBase, options) ==
  LET N(p) == NormalizarPago(p, tasaCambioBase)
      D(it) == Detalle(d.productos, it)
      detalles == MapSeq(items, D)
      pagosNormalizados == MapSeq(pagos, N)
      S(x) == x.subtotalCents
      totalVentaCents == SumSeq(MapSeq(detalles, S))
      descuentoCents ==
        DescuentoAplicado(Val(Coalesce(options.descuentoCents, Some(0))),
                          totalVentaCents)
      VentaItem(x) == [productoId |-> x.productoId,
                       cantidad |-> x.cantidad,
                       precioUnitario |-> fromCents(x.precioUnitarioCents)]
      FilaItem(x) == [venta_id |-> ventaId,
                      producto_id |-> x.productoId,
                      cantidad |-> x.cantidad,
                      precio_unitario_cents |-> x.precioUnitarioCents,
                      subtotal_cents |-> x.subtotalCents]
      FilaPago(p) == [venta_id |-> ventaId,
                      moneda |-> p.moneda,
                      cantidad_cents |-> toCents(p.cantidad),
                      tasa |-> p.tasa]
  IN [d EXCEPT
        !.productos = DescontarStock(d.productos, detalles),
        !.ventas = Insertar(d.ventas, ventaId,
                     [total_nio |-> totalVentaCents - descuentoCents,
                      items |-> JSONstringify(MapSeq(detalles, VentaItem)),
                      pagos |-> JSONstringify(pagosNormalizados),
                      usuario_id |-> usuarioId,
                      estado |-> "COMPLETA",
                      descuento_cents |-> descuentoCents,
                      tipo_venta |-> options.tipoVenta]),
        !.venta_items = d.venta_items \o MapSeq(detalles, FilaItem),
        !.venta_pagos = d.venta_pagos \o MapSeq(pagosNormalizados, FilaPago)]

\* SalesService.crearVenta: the outcome of the call on the transaction's view
\* d of the store: ok, the error thrown, the view after the call, and the
\* returned sale id, totals and change.
crearVenta(d, ventaId, items, pagos, usuarioId, tasaCambioBase, options) ==
  LET err == ErrorCrearVenta(d, items, pagos, tasaCambioBase, options)
      N(p) == NormalizarPago(p, tasaCambioBase)
      d2 == EscribirVenta(d, ventaId, items, pagos, usuarioId, tasaCambioBase,
                          options)
      totalPagadoCents == TotalPagadoCents(MapSeq(pagos, N), tasaCambioBase)
  IN IF err # "OK"
       THEN [ok |-> FALSE, err |-> err, db |-> d, ventaId |-> None,
             totalPagadoCents |-> 0, cambio |-> 0]
       ELSE [ok |-> TRUE, err |-> "OK", db |-> d2, ventaId |-> Some(ventaId),
             totalPagadoCents |-> totalPagadoCents,
             cambio |-> fromCents(totalPagadoCents - d2.ventas[ventaId].total_nio)]

(* ------------------------- withTursoTransaction ------------------------ *)

\* withTursoTransaction: the store after the handler's outcome r, run on a
\* transaction opened on store d: commit when the handler returned, rollback
\* when it threw.
withTursoTransaction(d, r) == IF r.ok THEN r.db ELSE d

(* ------------------------------ requests ------------------------------- *)

Item(p, c) == [productoId |-> p, cantidad |-> c]

Pago(m, c, t) == [moneda |-> m, cantidad |-> c, tasa |-> t]

\* Carts that can settle: one product, two products, one product named by
\* two lines.
CartsValidos ==
  { <<Item("P", 1)>>,
    <<Item("P", 2), Item("P", 1)>>,
    <<Item("P", 1), Item("Q", 1)>> }

\* Carts no operation accepts: a zero quantity, an unknown product, a product
\* without price, the empty cart.
CartsInvalidos ==
  { <<Item("P", 0)>>,
    <<Item("X", 1)>>,
    <<Item("R", 1)>>,
    <<>> }

\* Payment lists of valid lines: the price of one P in the base currency, an
\* over-payment in the base currency, and two USD lines, one with its own
\* rate (a tie at half a cent) and one on the default rate.
PagoExacto == <<Pago("NIO", 30, None)>>

PagoSobrado == <<Pago("NIO", 100, None)>>

\* One cent: what an order for one P lacks after a deposit of two cents.
PagoMenor == <<Pago("NIO", 10, None)>>

PagoUSD == <<Pago("USD", 15, Some(30)), Pago(" usd ", 20, None)>>

PagosValidos == {PagoExacto, PagoSobrado, PagoUSD}

\* Payment lists settlement rejects: a zero amount, a zero rate.
PagosInvalidos ==
  { <<Pago("NIO", 0, None)>>,
    <<Pago("USD", 10, Some(0))>> }

\* A USD line of 1.4 cents of a dollar at a rate of 3: 4.2 cents of the base
\* currency.
PagoUSDFino == <<Pago("USD", 14, Some(30))>>

\* Lines in a currency that is neither the base one nor USD, each with a
\* rate: the price of one P at face value, a third of it, and a line with a
\* rate of zero after a line in the base currency.
PagoEUR == <<Pago("eur", 30, Some(30))>>

PagoEURCorto == <<Pago("eur", 10, Some(30))>>

PagoEURTasaCero == <<Pago("NIO", 10, None), Pago("eur", 20, Some(0))>>

\* An over-payment in the base currency followed by a USD line of amount 0.
PagoSobradoYCero == <<Pago("NIO", 100, None), Pago("USD", 0, Some(30))>>

\* A call by the signed-in user.
Request(items, pagos, descuento) ==
  [items |-> items, pagos |-> pagos, usuarioId |-> "u1",
   descuento |-> descuento]

\* The calls of procesarVenta: every valid cart over-paid, one P paid
\* exactly and in USD, the two-line cart under-paid, a discount above and
\* below the gross total, each kind of invalid argument, a zero USD line
\* after an over-payment, a zero payment for an unknown product, more units
\* than there are of the product without price, a USD amount finer than a
\* cent, and a blank user.
VentaRequests ==
  { Request(i, PagoSobrado, None) : i \in CartsValidos }
    \cup { Request(<<Item("P", 1)>>, p, None) : p \in {PagoExacto, PagoUSD} }
    \cup { Request(<<Item("P", 2), Item("P", 1)>>, PagoExacto, None) }
    \cup { Request(<<Item("P", 1)>>, PagoExacto, Some(5)) }
    \cup { Request(<<Item("P", 2), Item("P", 1)>>, PagoSobrado, Some(5)) }
    \cup { Request(i, PagoSobrado, None) : i \in CartsInvalidos }
    \cup { Request(<<Item("P", 1)>>, p, None) : p \in PagosInvalidos \cup {<<>>} }
    \cup { Request(<<Item("P", 1)>>, PagoSobrado, Some(-1)) }
    \cup { Request(<<Item("P", 1)>>, PagoSobradoYCero, None) }
    \cup { Request(<<Item("X", 1)>>, <<Pago("NIO", 0, None)>>, None) }
    \cup { Request(<<Item("R", 2)>>, PagoSobrado, None) }
    \cup { Request(<<Item("P", 1)>>, PagoUSDFino, None) }
    \cup { [Request(<<Item("P", 1)>>, PagoSobrado, None)
             EXCEPT !.usuarioId = " "] }

(* ------------------------------- state --------------------------------- *)

Producto(stock, precioUnitario, precioVenta) ==
  [stockDisponible |-> stock, precioUnitario |-> precioUnitario,
   precioVenta |-> precioVenta]

NoOp ==
  [op |-> "init", ok |-> TRUE, err |-> "OK", id |-> None, items |-> <<>>,
   pagos |-> <<>>, usuarioId |-> "", descuento |-> None, monto |-> 0,
   ventaId |-> None, venta |-> None,
   totalPagadoCents |-> 0, cambio |-> 0, pre |-> None]

\* The products of the store at the start: P with a sale price, Q with a
\* unit price only, R without any price.
ProductosIniciales ==
  [p \in {"P", "Q", "R"} |->
     CASE p = "P" -> Producto(MaxStock, Some(10), Some(25))
       [] p = "Q" -> Producto(1, Some(10), None)
       [] OTHER -> Producto(1, None, None)]

\* A settlement that has not begun.
TxLibre == [pc |-> "libre", items |-> <<>>, visto |-> None]

\* The store at the start: the products, no sale, and one order with a
\* deposit.
DbInicial ==
  [productos |-> ProductosIniciales,
   ventas |-> <<>>,
   venta_items |-> <<>>,
   venta_pagos |-> <<>>,
   encargos |-> (0 :> [cliente |-> "Luz",
                       fecha_entrega |-> "2026-01-06T00:00:00.000Z",
                       total_estimado_cents |-> 3,
                       estado |-> "PENDIENTE",
                       venta_id |-> None]),
   encargo_items |-> <<[encargo_id |-> 0, producto_id |-> "P",
                        cantidad |-> 1, precio_estimado_cents |-> 3]>>,
   encargo_abonos |-> <<[encargo_id |-> 0, monto_cents |-> 2]>>,
   config |-> None]

\* The instance the controller constructs, once the INSERT its constructor
\* fired has run.
ServicioInicial == [SalesService(TasaCambioEnv) EXCEPT !.sembrar = FALSE]

\* The store once that INSERT has run.
DbSembrada == ensureDefaultExchangeRate(DbInicial, Val(TasaCambioEnv))

Init ==
  /\ db = DbSembrada
  /\ last = NoOp
  /\ uuid = [venta |-> 0, encargo |-> 0]
  /\ tx = [t \in 1..MaxTx |-> TxLibre]
  /\ servicio = ServicioInicial

(* ------------------------ SalesService.procesarVenta ------------------- *)

\* procesarVenta lines 113-127: the checks before the transaction opens.
ErrorProcesarVenta(items, pagos, usuarioId) ==
  IF items = <<>> THEN "SinProductos"
  ELSE IF pagos = <<>> THEN "SinPagos"
  ELSE IF Trim(usuarioId) = "" THEN "SinUsuario"
  ELSE "OK"

\* isValidTipoVenta lines 856-858.
isValidTipoVenta(value) == value \in {"DIRECTA", "ENCARGO"}

\* procesarVenta lines 106-138, with the options of the call: descuentoCents,
\* tipoVenta and encargoId, each optional.
ProcesarVentaOpciones(items, pagos, usuarioId, options) ==
  LET descuento == options.descuentoCents
      tipoVenta == Val(Coalesce(options.tipoVenta, Some("DIRECTA")))
      pre == IF ErrorProcesarVenta(items, pagos, usuarioId) # "OK"
               THEN ErrorProcesarVenta(items, pagos, usuarioId)
             ELSE IF ~isValidTipoVenta(tipoVenta) THEN "TipoVentaInvalido"
             ELSE "OK"
      ventaId == uuid.venta + 1
      r == crearVenta(db, ventaId, items, pagos, usuarioId,
                      obtenerTasaCambio(db),
                      [tipoVenta |-> tipoVenta, descuentoCents |-> descuento,
                       encargoId |-> options.encargoId])
  IN /\ uuid.venta < MaxVentas
     /\ IF pre # "OK"
          THEN /\ db' = db
               /\ uuid' = uuid
               /\ last' = [NoOp EXCEPT !.op = "procesarVenta", !.ok = FALSE,
                             !.err = pre, !.items = items, !.pagos = pagos,
                             !.usuarioId = usuarioId,
                             !.descuento = descuento, !.pre = Some(db)]
          ELSE /\ db' = withTursoTransaction(db, r)
               /\ uuid' = IF r.ok THEN [uuid EXCEPT !.venta = ventaId] ELSE uuid
               /\ last' = [NoOp EXCEPT !.op = "procesarVenta", !.ok = r.ok,
                             !.err = r.err, !.items = items, !.pagos = pagos,
                             !.usuarioId = usuarioId,
                             !.descuento = descuento, !.ventaId = r.ventaId,
                             !.totalPagadoCents = r.totalPagadoCents,
                             !.cambio = r.cambio, !.pre = Some(db)]
     /\ tx' = tx
     /\ servicio' = servicio

\* POST /api/sales/checkout, sales.controller.ts lines 875-886: procesarVenta
\* is given the discount and no other option.
ProcesarVenta(items, pagos, usuarioId, descuento) ==
  ProcesarVentaOpciones(items, pagos, usuarioId,
                        [descuentoCents |-> descuento, tipoVenta |-> None,
                         encargoId |-> None])

(* --------------------- SalesService.obtenerVentaPorId ------------------ *)

\* fetchVentaItems that quotes each line at the product's price of today.
fetchVentaItemsPrecioActual(d, id) ==
  LET F(f) == [productoId |-> f.producto_id, cantidad |-> f.cantidad,
               precioUnitario |->
                 fromCents(toCents(Val(PrecioBase(d.productos[f.producto_id]))))]
  IN MapSeq(FilasDe(d.venta_items, "venta_id", id), F)

\* fetchVentaItems: the venta_items rows of a sale as VentaItem objects.
fetchVentaItems(d, id) ==
  LET F(f) == [productoId |-> f.producto_id, cantidad |-> f.cantidad,
               precioUnitario |-> fromCents(f.precio_unitario_cents)]
  IN MapSeq(FilasDe(d.venta_items, "venta_id", id), F)

\* fetchVentaPagos: the venta_pagos rows of a sale as DetallePago objects.
fetchVentaPagos(d, id) ==
  LET F(f) == Pago(f.moneda, fromCents(f.cantidad_cents), f.tasa)
  IN MapSeq(FilasDe(d.venta_pagos, "venta_id", id), F)

\* fetchEncargoIdsByVentaIds: the order that names the sale, if any.
fetchEncargoIdPorVenta(d, id) ==
  IF \E e \in DOMAIN d.encargos : d.encargos[e].venta_id = Some(id)
    THEN Some(CHOOSE e \in DOMAIN d.encargos : d.encargos[e].venta_id = Some(id))
    ELSE None

\* calcularTotalPagadoCents: the paid total the query recomputes from the
\* payments it returns; a USD line without rate is counted at the
\* configuration fallback, else at 1.
calcularTotalPagadoCents(pagos) ==
  LET F(p) ==
        IF NormalizarMoneda(p.moneda) = "USD"
          THEN MathRound(p.cantidad
                           * Val(Coalesce(p.tasa,
                                          Coalesce(tasaCambioFallback, Some(10)))),
                         100)
          ELSE toCents(p.cantidad)
  IN SumSeq(MapSeq(pagos, F))

\* mapVentaRow that prefers the JSON columns of the row to the normalized
\* rows.
mapVentaRowPrefiereJson(row, normalizedItems, normalizedPagos, encargoId) ==
  LET fallbackItems == Val(Coalesce(parseJsonField(row.items), Some(<<>>)))
      fallbackPagos == Val(Coalesce(parseJsonField(row.pagos), Some(<<>>)))
      items == IF fallbackItems # <<>> THEN fallbackItems ELSE normalizedItems
      pagos == IF fallbackPagos # <<>> THEN fallbackPagos ELSE normalizedPagos
  IN [totalNIO |-> fromCents(row.total_nio),
      items |-> items,
      pagos |-> pagos,
      usuarioId |-> row.usuario_id,
      estado |-> row.estado,
      descuentoNIO |-> fromCents(row.descuento_cents),
      tipoVenta |-> row.tipo_venta,
      totalPagadoNIO |-> fromCents(calcularTotalPagadoCents(pagos)),
      encargoId |-> encargoId]

\* SalesService.mapVentaRow: the Venta built from a ventas row, the
\* normalized lines and payments found for it, and the order naming it.
mapVentaRow(row, normalizedItems, normalizedPagos, encargoId) ==
  LET fallbackItems == Val(Coalesce(parseJsonField(row.items), Some(<<>>)))
      fallbackPagos == Val(Coalesce(parseJsonField(row.pagos), Some(<<>>)))
      items == IF normalizedItems # <<>> THEN normalizedItems ELSE fallbackItems
      pagos == IF normalizedPagos # <<>> THEN normalizedPagos ELSE fallbackPagos
  IN [totalNIO |-> fromCents(row.total_nio),
      items |-> items,
      pagos |-> pagos,
      usuarioId |-> row.usuario_id,
      estado |-> row.estado,
      descuentoNIO |-> fromCents(row.descuento_cents),
      tipoVenta |-> row.tipo_venta,
      totalPagadoNIO |-> fromCents(calcularTotalPagadoCents(pagos)),
      encargoId |-> encargoId]

\* hydrateVentas on the row of sale id: what obtenerVentaPorId and
\* obtenerHistorial return for the sale.
obtenerVentaPorId(d, id) ==
  [id |-> id]
    @@ mapVentaRow(d.ventas[id], fetchVentaItems(d, id), fetchVentaPagos(d, id),
                   fetchEncargoIdPorVenta(d, id))

(* ------------------------- SalesService.anularVenta -------------------- *)

\* anularVenta lines 82-94: every line adds its quantity to its product; the
\* lines of one product share the product object, so the additions add up.
RECURSIVE ReponerStock(_, _)
ReponerStock(productos, items) ==
  IF items = <<>> THEN productos
  ELSE LET it == Head(items)
       IN ReponerStock(
            [productos EXCEPT ![it.productoId].stockDisponible =
                                  @ + it.cantidad],
            Tail(items))

\* VentaReferenciada of a store that does not hold the sale's row for the
\* orders that reference it.
VentaSinReferencia(d, id) == FALSE

\* DELETE FROM ventas WHERE id = ?: refused while an order row references the
\* sale (encargos.venta_id REFERENCES ventas(id)).
VentaReferenciada(d, id) ==
  \E e \in DOMAIN d.encargos : d.encargos[e].venta_id = Some(id)

\* DELETE FROM ventas WHERE id = ? with its ON DELETE CASCADE children.
BorrarVenta(d, id) ==
  [d EXCEPT !.ventas = Borrar(d.ventas, id),
            !.venta_items = SelectSeq(d.venta_items, LAMBDA f : f.venta_id # id),
            !.venta_pagos = SelectSeq(d.venta_pagos, LAMBDA f : f.venta_id # id)]

\* anularVenta that does not look the sale up before restoring its lines.
anularVentaSinBuscar(d, id) ==
  LET items == IF id \in DOMAIN d.ventas THEN obtenerVentaPorId(d, id).items
               ELSE fetchVentaItems(d, id)
      d2 == [d EXCEPT !.productos = ReponerStock(d.productos, items)]
  IN IF \E i \in 1..Len(items) : items[i].productoId \notin DOMAIN d.productos
       THEN [ok |-> FALSE, err |-> "ProductoNoExiste", db |-> d]
     ELSE IF VentaReferenciada(d2, id)
       THEN [ok |-> FALSE, err |-> "ForeignKey", db |-> d2]
     ELSE [ok |-> TRUE, err |-> "OK", db |-> BorrarVenta(d2, id)]

\* SalesService.anularVenta, the handler run inside the transaction: ok, the
\* error thrown, and the transaction's view of the store when it ended.
anularVenta(d, id) ==
  LET items == obtenerVentaPorId(d, id).items
      d2 == [d EXCEPT !.productos = ReponerStock(d.productos, items)]
  IN IF id \notin DOMAIN d.ventas
       THEN [ok |-> FALSE, err |-> "VentaNoEncontrada", db |-> d]
     ELSE IF \E i \in 1..Len(items) : items[i].productoId \notin DOMAIN d.productos
       THEN [ok |-> FALSE, err |-> "ProductoNoExiste", db |-> d]
     ELSE IF VentaReferenciada(d2, id)
       THEN [ok |-> FALSE, err |-> "ForeignKey", db |-> d2]
     ELSE [ok |-> TRUE, err |-> "OK", db |-> BorrarVenta(d2, id)]

AnularVenta(id) ==
  LET r == anularVenta(db, id)
  IN /\ db' = withTursoTransaction(db, r)
     /\ uuid' = uuid
     /\ last' = [NoOp EXCEPT !.op = "anularVenta", !.ok = r.ok, !.err = r.err,
                   !.id = Some(id), !.pre = Some(db)]
     /\ tx' = tx
     /\ servicio' = servicio

(* ------------------------ SalesService.crearEncargo -------------------- *)

\* new Date(fechaEntrega).toISOString(); None when the date does not parse.
FechaISO(f) ==
  IF f = "2026-12-24" THEN Some("2026-12-24T00:00:00.000Z") ELSE None

\* ErrorItemEncargo that also asks for the stock, as settlement does.
ErrorItemEncargoConStock(productos, item) == ErrorItem(productos, item)

\* crearEncargo lines 183-190: the check that rejects one order line.
ErrorItemEncargo(productos, item) ==
  IF item.cantidad <= 0 THEN "CantidadInvalida"
  ELSE IF item.productoId \notin DOMAIN productos THEN "ProductoNoEncontrado"
  ELSE IF ~IsSome(PrecioBase(productos[item.productoId])) THEN "PrecioNoDefinido"
  ELSE "OK"

\* crearEncargo lines 168-199: the error the call throws, "OK" when it passes.
ErrorCrearEncargo(d, cliente, fechaEntrega, items) ==
  IF Trim(cliente) = "" THEN "ClienteRequerido"
  ELSE IF items = <<>> THEN "SinProductos"
  ELSE IF ~IsSome(FechaISO(fechaEntrega)) THEN "FechaInvalida"
  ELSE IF \E i \in 1..Len(items) : items[i].cantidad <= 0 THEN "CantidadInvalida"
  ELSE LET F(it) == ErrorItemEncargo(d.productos, it) # "OK"
           i == FirstIndex(items, F)
       IN IF i = 0 THEN "OK" ELSE ErrorItemEncargo(d.productos, items[i])

\* EscribirEncargo that locks the unit cost even when a sale price is set.
EscribirEncargoCosto(d, encargoId, cliente, fechaEntrega, items) ==
  LET D(it) ==
        [encargo_id |-> encargoId,
         producto_id |-> it.productoId,
         cantidad |-> it.cantidad,
         precio_estimado_cents |->
           toCents(Val(Coalesce(d.productos[it.productoId].precioUnitario,
                                d.productos[it.productoId].precioVenta)))]
      detalles == MapSeq(items, D)
      S(x) == x.precio_estimado_cents * x.cantidad
  IN [d EXCEPT
        !.encargos = Insertar(d.encargos, encargoId,
                       [cliente |-> Trim(cliente),
                        fecha_entrega |-> Val(FechaISO(fechaEntrega)),
                        total_estimado_cents |-> SumSeq(MapSeq(detalles, S)),
                        estado |-> "PENDIENTE",
                        venta_id |-> None]),
        !.encargo_items = d.encargo_items \o detalles]

\* crearEncargo lines 191-221: the order row and its price-locked lines.
EscribirEncargo(d, encargoId, cliente, fechaEntrega, items) ==
  LET D(it) ==
        [encargo_id |-> encargoId,
         producto_id |-> it.productoId,
         cantidad |-> it.cantidad,
         precio_estimado_cents |->
           toCents(Val(PrecioBase(d.productos[it.productoId])))]
      detalles == MapSeq(items, D)
      S(x) == x.precio_estimado_cents * x.cantidad
  IN [d EXCEPT
        !.encargos = Insertar(d.encargos, encargoId,
                       [cliente |-> Trim(cliente),
                        fecha_entrega |-> Val(FechaISO(fechaEntrega)),
                        total_estimado_cents |-> SumSeq(MapSeq(detalles, S)),
                        estado |-> "PENDIENTE",
                        venta_id |-> None]),
        !.encargo_items = d.encargo_items \o detalles]

CrearEncargo(cliente, fechaEntrega, items) ==
  LET encargoId == uuid.encargo + 1
      err == ErrorCrearEncargo(db, cliente, fechaEntrega, items)
      r == IF err = "OK"
             THEN [ok |-> TRUE, err |-> "OK",
                   db |-> EscribirEncargo(db, encargoId, cliente, fechaEntrega, items)]
             ELSE [ok |-> FALSE, err |-> err, db |-> db]
  IN /\ uuid.encargo < MaxEncargos
     /\ db' = withTursoTransaction(db, r)
     /\ uuid' = IF r.ok THEN [uuid EXCEPT !.encargo = encargoId] ELSE uuid
     /\ last' = [NoOp EXCEPT !.op = "crearEncargo", !.ok = r.ok, !.err = r.err,
                   !.id = IF r.ok THEN Some(encargoId) ELSE None,
                   !.items = items, !.pre = Some(db)]
     /\ tx' = tx
     /\ servicio' = servicio

(* ----------------------- SalesService.registrarAbono ------------------- *)

\* EsPendiente that lets every order through.
EsCualquiera(encargo) == TRUE

\* encargo.estado === "PENDIENTE", the guard of registrarAbono (line 240) and
\* of finalizarEncargo (line 274).
EsPendiente(encargo) == encargo.estado = "PENDIENTE"

\* registrarAbono that also takes the deposit off the order's estimated
\* total.
registrarAbonoDescuentaTotal(d, encargoId, monto) ==
  IF monto <= 0 THEN [ok |-> FALSE, err |-> "AbonoInvalido", db |-> d]
  ELSE IF encargoId \notin DOMAIN d.encargos
    THEN [ok |-> FALSE, err |-> "EncargoNoEncontrado", db |-> d]
  ELSE IF ~EsPendiente(d.encargos[encargoId])
    THEN [ok |-> FALSE, err |-> "EncargoNoPendiente", db |-> d]
  ELSE [ok |-> TRUE, err |-> "OK",
        db |-> [d EXCEPT !.encargo_abonos =
                  Append(@, [encargo_id |-> encargoId,
                             monto_cents |-> toCents(monto)]),
                         !.encargos[encargoId].total_estimado_cents =
                           @ - toCents(monto)]]

\* registrarAbono: ok, the error thrown, the transaction's view at the end.
registrarAbono(d, encargoId, monto) ==
  IF monto <= 0 THEN [ok |-> FALSE, err |-> "AbonoInvalido", db |-> d]
  ELSE IF encargoId \notin DOMAIN d.encargos
    THEN [ok |-> FALSE, err |-> "EncargoNoEncontrado", db |-> d]
  ELSE IF ~EsPendiente(d.encargos[encargoId])
    THEN [ok |-> FALSE, err |-> "EncargoNoPendiente", db |-> d]
  ELSE [ok |-> TRUE, err |-> "OK",
        db |-> [d EXCEPT !.encargo_abonos =
                  Append(@, [encargo_id |-> encargoId,
                             monto_cents |-> toCents(monto)])]]

RegistrarAbono(encargoId, monto) ==
  LET r == registrarAbono(db, encargoId, monto)
  IN /\ r.ok => Len(FilasDe(db.encargo_abonos, "encargo_id", encargoId)) < MaxAbonos
     /\ db' = withTursoTransaction(db, r)
     /\ uuid' = uuid
     /\ last' = [NoOp EXCEPT !.op = "registrarAbono", !.ok = r.ok, !.err = r.err,
                   !.id = Some(encargoId), !.monto = monto, !.pre = Some(db)]
     /\ tx' = tx
     /\ servicio' = servicio

(* ---------------------- SalesService.finalizarEncargo ------------------ *)

\* ItemsDeEncargo that hands over the first line of the order only.
ItemsDeEncargoPrimero(d, encargoId) ==
  LET F(f) == Item(f.producto_id, f.cantidad)
  IN MapSeq(SubSeq(FilasDe(d.encargo_items, "encargo_id", encargoId), 1, 1), F)

\* finalizarEncargo lines 278-292: the cart and the payment list handed to
\* crearVenta: the order's lines, one base-currency line per deposit, then
\* the payments of the call.
ItemsDeEncargo(d, encargoId) ==
  LET F(f) == Item(f.producto_id, f.cantidad)
  IN MapSeq(FilasDe(d.encargo_items, "encargo_id", encargoId), F)

\* PagosCombinados that puts the lines of the caller before the deposits.
PagosFinalesPrimero(d, encargoId, pagosFinales) ==
  LET F(f) == Pago("NIO", fromCents(f.monto_cents), None)
  IN pagosFinales \o MapSeq(FilasDe(d.encargo_abonos, "encargo_id", encargoId), F)

\* PagosCombinados that forgets the deposits.
PagosSinAbonos(d, encargoId, pagosFinales) == pagosFinales

\* finalizarEncargo lines 287-292: one base-currency line without rate per
\* deposit, then the lines of the caller.
PagosCombinados(d, encargoId, pagosFinales) ==
  LET F(f) == Pago("NIO", fromCents(f.monto_cents), None)
  IN MapSeq(FilasDe(d.encargo_abonos, "encargo_id", encargoId), F) \o pagosFinales

\* MarcarEntregado whose UPDATE reaches every order: the order finalized
\* becomes ENTREGADO and every other one PENDIENTE.
MarcarYReabrir(d, encargoId, ventaId) ==
  [d EXCEPT !.encargos =
     [e \in DOMAIN d.encargos |->
        IF e = encargoId
          THEN [d.encargos[e] EXCEPT !.estado = "ENTREGADO",
                                     !.venta_id = Some(ventaId)]
          ELSE [d.encargos[e] EXCEPT !.estado = "PENDIENTE"]]]

\* MarcarEntregado that also copies the sale's total onto the order.
MarcarYRevaluar(d, encargoId, ventaId) ==
  [d EXCEPT !.encargos[encargoId].estado = "ENTREGADO",
            !.encargos[encargoId].venta_id = Some(ventaId),
            !.encargos[encargoId].total_estimado_cents =
               d.ventas[ventaId].total_nio]

\* MarcarEntregado that leaves the order without its sale.
MarcarSinEnlace(d, encargoId, ventaId) ==
  [d EXCEPT !.encargos[encargoId].estado = "ENTREGADO"]

\* finalizarEncargo lines 303-306:
\* UPDATE encargos SET estado = 'ENTREGADO', venta_id = ? WHERE id = ?
MarcarEntregado(d, encargoId, ventaId) ==
  [d EXCEPT !.encargos[encargoId].estado = "ENTREGADO",
            !.encargos[encargoId].venta_id = Some(ventaId)]

\* encargos.venta_id is UNIQUE: the UPDATE of finalizarEncargo fails when
\* another order already names the sale.
VentaEnlazada(d, encargoId, ventaId) ==
  \E o \in (DOMAIN d.encargos) \ {encargoId} :
    d.encargos[o].venta_id = Some(ventaId)

\* SalesService.finalizarEncargo, the handler run inside the transaction.
finalizarEncargo(d, ventaId, encargoId, pagosFinales, usuarioId, tasaCambioBase, descuento) ==
  LET items == ItemsDeEncargo(d, encargoId)
      pagos == PagosCombinados(d, encargoId, pagosFinales)
      r == crearVenta(d, ventaId, items, pagos, usuarioId, tasaCambioBase,
                      [tipoVenta |-> "ENCARGO", descuentoCents |-> descuento,
                       encargoId |-> Some(encargoId)])
      falla(e) == [ok |-> FALSE, err |-> e, db |-> d, ventaId |-> None,
                   totalPagadoCents |-> 0, cambio |-> 0]
  IN IF encargoId \notin DOMAIN d.encargos THEN falla("EncargoNoEncontrado")
     ELSE IF ~EsPendiente(d.encargos[encargoId])
       THEN falla("EncargoNoPendiente")
     ELSE IF items = <<>> THEN falla("SinProductos")
     ELSE IF pagos = <<>> THEN falla("SinPagos")
     ELSE IF ~r.ok THEN r
     ELSE IF VentaEnlazada(r.db, encargoId, ventaId) THEN falla("VentaYaEnlazada")
     ELSE [r EXCEPT !.db = MarcarEntregado(r.db, encargoId, ventaId)]

\* finalizarEncargo lines 266-268: the check before the transaction opens.
ErrorFinalizarEncargo(usuarioId) ==
  IF Trim(usuarioId) = "" THEN "SinUsuario" ELSE "OK"

FinalizarEncargo(encargoId, pagosFinales, usuarioId, descuento) ==
  LET pre == ErrorFinalizarEncargo(usuarioId)
      ventaId == uuid.venta + 1
      f == finalizarEncargo(db, ventaId, encargoId, pagosFinales, usuarioId,
                            obtenerTasaCambio(db), descuento)
      r == IF pre # "OK"
             THEN [ok |-> FALSE, err |-> pre, db |-> db, ventaId |-> None,
                   totalPagadoCents |-> 0, cambio |-> 0]
             ELSE f
  IN /\ uuid.venta < MaxVentas
     /\ db' = withTursoTransaction(db, r)
     /\ uuid' = IF r.ok THEN [uuid EXCEPT !.venta = ventaId] ELSE uuid
     /\ last' = [NoOp EXCEPT !.op = "finalizarEncargo", !.ok = r.ok,
                   !.err = r.err, !.id = Some(encargoId), !.pagos = pagosFinales,
                   !.usuarioId = usuarioId,
                   !.descuento = descuento, !.ventaId = r.ventaId,
                   !.totalPagadoCents = r.totalPagadoCents,
                   !.cambio = r.cambio, !.pre = Some(db)]
     /\ tx' = tx
     /\ servicio' = servicio

(* ------------------- InventoryService.actualizarProducto --------------- *)

\* actualizarProducto with data = {precioVenta}: the row is rewritten with
\* the new sale price and its other columns as read.
ActualizarProducto(id, precioVenta) ==
  /\ id \in DOMAIN db.productos
  /\ db' = [db EXCEPT !.productos[id].precioVenta = precioVenta]
  /\ uuid' = uuid
  /\ last' = [NoOp EXCEPT !.op = "actualizarProducto", !.pre = Some(db)]
  /\ tx' = tx
  /\ servicio' = servicio

(* ------------------------------ requests ------------------------------- *)

\* Sale ids a caller may name: those handed out, and one never handed out.
VentaIds == 1..(MaxVentas + 1)

\* Order ids: 0 is the order present from the start, with its deposit; then
\* the ids handed out; and one never handed out.
EncargosCreados == 1..MaxEncargos

EncargoInexistente == MaxEncargos + 1

\* The calls of crearEncargo: every cart, a blank customer, a date that does
\* not parse.
EncargoRequests ==
  { [cliente |-> "Ana", fechaEntrega |-> "2026-12-24", items |-> i] :
      i \in CartsValidos \cup CartsInvalidos }
    \cup { [cliente |-> " ", fechaEntrega |-> "2026-12-24",
            items |-> <<Item("P", 1)>>],
           [cliente |-> "Ana", fechaEntrega |-> "pronto",
            items |-> <<Item("P", 1)>>] }

\* The calls of registrarAbono: zero, below half a cent and two cents on the
\* orders handed out; two cents on the order present from the start and on
\* the unknown order.
AbonoRequests ==
  { [id |-> e, monto |-> m] : e \in EncargosCreados, m \in {0, 4, 20} }
    \cup { [id |-> e, monto |-> 20] : e \in {0, EncargoInexistente} }

\* The calls of finalizarEncargo: on the orders handed out, one cent, an
\* over-payment, USD lines and no payment, a discount, and each kind of
\* invalid argument; one call on the order present from the start and on
\* the unknown order; a
\* call with a blank user.
FinalizarRequests ==
  { [id |-> e, pagos |-> p, usuarioId |-> "u1", descuento |-> None] :
      e \in EncargosCreados,
      p \in {PagoMenor, PagoSobrado, PagoUSD, <<>>, PagoSobradoYCero}
             \cup PagosInvalidos }
    \cup { [id |-> e, pagos |-> <<>>, usuarioId |-> "u1",
            descuento |-> Some(5)] : e \in EncargosCreados }
    \cup { [id |-> e, pagos |-> PagoSobrado, usuarioId |-> "u1",
            descuento |-> Some(-1)] : e \in EncargosCreados }
    \cup { [id |-> e, pagos |-> PagoSobrado, usuarioId |-> "u1",
            descuento |-> None] : e \in {0, EncargoInexistente} }
    \cup { [id |-> e, pagos |-> PagoSobrado, usuarioId |-> " ",
            descuento |-> None] : e \in EncargosCreados }

\* The sale price actualizarProducto sets on P.
PreciosVenta == {Some(35)}

Next ==
  \/ \E q \in VentaRequests : ProcesarVenta(q.items, q.pagos, q.usuarioId, q.descuento)
  \/ \E id \in VentaIds : AnularVenta(id)
  \/ \E q \in EncargoRequests : CrearEncargo(q.cliente, q.fechaEntrega, q.items)
  \/ \E q \in AbonoRequests : RegistrarAbono(q.id, q.monto)
  \/ \E q \in FinalizarRequests :
       FinalizarEncargo(q.id, q.pagos, q.usuarioId, q.descuento)
  \/ \E precioVenta \in PreciosVenta : ActualizarProducto("P", precioVenta)

Spec == Init /\ [][Next]_vars

(* --------------- settlements interleaved, read committed --------------- *)

\* The carts of the settlements in flight.
CartsConcurrentes ==
  { <<Item("P", 1)>>, <<Item("P", 2)>>, <<Item("P", MaxStock)>>,
    <<Item("Q", 1)>> }

\* The options of a direct sale without discount.
OpcionesDirecta ==
  [tipoVenta |-> "DIRECTA", descuentoCents |-> None, encargoId |-> None]

\* The products the lines of a cart name.
ProductosDe(items) == {items[i].productoId : i \in 1..Len(items)}

\* procesarVenta up to client.transaction(): settlement t begins, for cart
\* items, over-paid in the base currency.
Abrir(t, items) ==
  /\ tx[t].pc = "libre"
  /\ ErrorProcesarVenta(items, PagoSobrado, "u1") = "OK"
  /\ tx' = [tx EXCEPT ![t] = [pc |-> "abierta", items |-> items,
                              visto |-> None]]
  /\ UNCHANGED <<db, last, uuid, servicio>>

\* crearVenta lines 321-375 inside the transaction: the product rows are
\* read as last committed, and the validations run on what was read; a
\* failure rolls the transaction back.
Leer(t) ==
  /\ tx[t].pc = "abierta"
  /\ LET err == ErrorCrearVenta(db, tx[t].items, PagoSobrado,
                                obtenerTasaCambio(db), OpcionesDirecta)
     IN tx' = [tx EXCEPT ![t].pc = IF err = "OK" THEN "leida" ELSE "abortada",
                         ![t].visto = Some(db.productos)]
  /\ UNCHANGED <<db, last, uuid, servicio>>

\* crearVenta lines 377-447: the UPDATEs and INSERTs of the transaction,
\* held back until the commit; an UPDATE waits while another transaction
\* that has not ended holds a write on the same product row.
Escribir(t) ==
  /\ tx[t].pc = "leida"
  /\ \A u \in (DOMAIN tx) \ {t} :
       tx[u].pc = "escrita" =>
         ProductosDe(tx[u].items) \cap ProductosDe(tx[t].items) = {}
  /\ tx' = [tx EXCEPT ![t].pc = "escrita"]
  /\ UNCHANGED <<db, last, uuid, servicio>>

\* withTursoTransaction lines 31-33: the commit makes the writes visible:
\* each product of the cart gets the quantity computed from what the
\* transaction had read, and the sale rows are added.
Confirmar(t) ==
  /\ tx[t].pc = "escrita"
  /\ LET ventaId == uuid.venta + 1
         vista == [db EXCEPT !.productos = Val(tx[t].visto)]
         w == EscribirVenta(vista, ventaId, tx[t].items, PagoSobrado, "u1",
                            obtenerTasaCambio(db), OpcionesDirecta)
     IN /\ db' = [w EXCEPT !.productos =
                    [p \in DOMAIN db.productos |->
                       IF p \in ProductosDe(tx[t].items)
                         THEN w.productos[p] ELSE db.productos[p]]]
        /\ uuid' = [uuid EXCEPT !.venta = ventaId]
  /\ tx' = [tx EXCEPT ![t].pc = "confirmada"]
  /\ last' = last
  /\ servicio' = servicio

NextConcurrente ==
  \/ \E t \in DOMAIN tx, items \in CartsConcurrentes : Abrir(t, items)
  \/ \E t \in DOMAIN tx : Leer(t)
  \/ \E t \in DOMAIN tx : Escribir(t)
  \/ \E t \in DOMAIN tx : Confirmar(t)

SpecConcurrente == Init /\ [][NextConcurrente]_vars

(* ------------------- the historical query on any store ----------------- *)

\* The lines and payments a sale written before venta_items and venta_pagos
\* existed keeps in its JSON columns.
ItemsLegado == <<[productoId |-> "P", cantidad |-> 1, precioUnitario |-> 30]>>

PagosLegado == <<Pago("NIO", 30, None)>>

\* What the items and pagos columns of a ventas row can hold.
ColumnasItems ==
  {Nulo, TextoInvalido, JSONstringify(<<>>), JSONstringify(ItemsLegado)}

ColumnasPagos ==
  {Nulo, TextoInvalido, JSONstringify(<<>>), JSONstringify(PagosLegado)}

\* The venta_items rows of sale 1: none, one, two.
FilasItemsDeVenta ==
  { <<>>,
    <<[venta_id |-> 1, producto_id |-> "P", cantidad |-> 1,
       precio_unitario_cents |-> 4, subtotal_cents |-> 4]>>,
    <<[venta_id |-> 1, producto_id |-> "P", cantidad |-> 2,
       precio_unitario_cents |-> 3, subtotal_cents |-> 6],
      [venta_id |-> 1, producto_id |-> "Q", cantidad |-> 1,
       precio_unitario_cents |-> 10, subtotal_cents |-> 10]>> }

\* The venta_pagos rows of sale 1: none, one, two.
FilasPagosDeVenta ==
  { <<>>,
    <<[venta_id |-> 1, moneda |-> "NIO", cantidad_cents |-> 4, tasa |-> None]>>,
    <<[venta_id |-> 1, moneda |-> "USD", cantidad_cents |-> 2,
       tasa |-> Some(30)],
      [venta_id |-> 1, moneda |-> "NIO", cantidad_cents |-> 1,
       tasa |-> None]>> }

\* A store with one sale, in every combination of JSON columns and
\* normalized rows.
InitHistorial ==
  /\ \E ci \in ColumnasItems, cp \in ColumnasPagos,
        fi \in FilasItemsDeVenta, fp \in FilasPagosDeVenta :
       db = [productos |-> ProductosIniciales,
             ventas |-> (1 :> [total_nio |-> 3, items |-> ci, pagos |-> cp,
                               usuario_id |-> "u1", estado |-> "COMPLETA",
                               descuento_cents |-> 0,
                               tipo_venta |-> "DIRECTA"]),
             venta_items |-> fi,
             venta_pagos |-> fp,
             encargos |-> <<>>,
             encargo_items |-> <<>>,
             encargo_abonos |-> <<>>,
             config |-> DbSembrada.config]
  /\ last = NoOp
  /\ uuid = [venta |-> 1, encargo |-> 0]
  /\ tx = [t \in 1..MaxTx |-> TxLibre]
  /\ servicio = ServicioInicial

\* SalesService.obtenerVentaPorId: fetchVentaById and hydrateVentas.
ObtenerVentaPorId(id) ==
  /\ last' = IF id \in DOMAIN db.ventas
               THEN [NoOp EXCEPT !.op = "obtenerVentaPorId", !.id = Some(id),
                       !.venta = Some(obtenerVentaPorId(db, id)),
                       !.pre = Some(db)]
               ELSE [NoOp EXCEPT !.op = "obtenerVentaPorId", !.id = Some(id),
                       !.ok = FALSE, !.err = "VentaNoEncontrada",
                       !.pre = Some(db)]
  /\ UNCHANGED <<db, uuid, tx, servicio>>

NextHistorial ==
  \/ \E id \in VentaIds : ObtenerVentaPorId(id)
  \/ \E id \in VentaIds : AnularVenta(id)

SpecHistorial == InitHistorial /\ [][NextHistorial]_vars

(* ------------- withTursoTransaction, statement by statement ------------ *)

\* A transaction withTursoTransaction has not opened yet.
TransaccionLibre ==
  [pc |-> "libre", monto |-> 0, error |-> None, cierre |-> "ninguno",
   lanzado |-> None, retorno |-> FALSE]

InitTransaccion ==
  /\ db = DbSembrada
  /\ last = NoOp
  /\ uuid = [venta |-> 0, encargo |-> 0]
  /\ tx = [t \in 1..MaxTx |-> TransaccionLibre]
  /\ servicio = ServicioInicial

\* Line 29: client.transaction() opens transaction t, for a registrarAbono
\* of monto on the order of the store.
AbrirTransaccion(t, monto) ==
  /\ tx[t].pc = "libre"
  /\ tx' = [tx EXCEPT ![t].pc = "abierta", ![t].monto = monto]
  /\ UNCHANGED <<db, last, uuid, servicio>>

\* Line 31: the handler runs; it returns, or it throws and control goes to
\* the catch block.
EjecutarHandler(t) ==
  /\ tx[t].pc = "abierta"
  /\ LET r == registrarAbono(db, 0, tx[t].monto)
     IN tx' = [tx EXCEPT ![t].pc = IF r.ok THEN "handlerOk" ELSE "catch",
                         ![t].error = IF r.ok THEN None ELSE Some(r.err)]
  /\ UNCHANGED <<db, last, uuid, servicio>>

\* Lines 32-33: tx.commit() resolves, the writes of the handler become
\* visible and the result is returned.
CommitOk(t) ==
  /\ tx[t].pc = "handlerOk"
  /\ db' = registrarAbono(db, 0, tx[t].monto).db
  /\ tx' = [tx EXCEPT ![t].pc = "fin", ![t].cierre = "commit",
                      ![t].retorno = TRUE]
  /\ UNCHANGED <<last, uuid, servicio>>

\* Line 32: tx.commit() rejects; control goes to the catch block.
CommitFalla(t) ==
  /\ tx[t].pc = "handlerOk"
  /\ tx' = [tx EXCEPT ![t].pc = "catch", ![t].error = Some("CommitError")]
  /\ UNCHANGED <<db, last, uuid, servicio>>

\* Lines 35-36: tx.rollback() resolves and the error caught is thrown.
RollbackOk(t) ==
  /\ tx[t].pc = "catch"
  /\ tx' = [tx EXCEPT ![t].pc = "fin", ![t].cierre = "rollback",
                      ![t].lanzado = tx[t].error]
  /\ UNCHANGED <<db, last, uuid, servicio>>

\* Line 35: tx.rollback() rejects: its rejection leaves the catch block in
\* place of the error caught, and nothing has closed the transaction.
RollbackFalla(t) ==
  /\ tx[t].pc = "catch"
  /\ tx' = [tx EXCEPT ![t].pc = "fin", ![t].lanzado = Some("RollbackError")]
  /\ UNCHANGED <<db, last, uuid, servicio>>

\* The deposits asked for: two cents, and zero, which the handler rejects.
MontosDeTransaccion == {0, 20}

NextTransaccion ==
  \/ \E t \in DOMAIN tx, monto \in MontosDeTransaccion : AbrirTransaccion(t, monto)
  \/ \E t \in DOMAIN tx : EjecutarHandler(t)
  \/ \E t \in DOMAIN tx : CommitOk(t)
  \/ \E t \in DOMAIN tx : CommitFalla(t)
  \/ \E t \in DOMAIN tx : RollbackOk(t)
  \/ \E t \in DOMAIN tx : RollbackFalla(t)

SpecTransaccion == InitTransaccion /\ [][NextTransaccion]_vars

(* ------------- the service called with any of its options ------------- *)

\* The options a caller of procesarVenta may pass: none, each kind of sale, a
\* kind that is not one, and the id of the order of the store.
OpcionesDeVenta ==
  { [descuentoCents |-> None, tipoVenta |-> t, encargoId |-> e] :
      t \in {None, Some("DIRECTA"), Some("ENCARGO"), Some("OTRA")},
      e \in {None, Some(0)} }

\* The cart of the calls of procesarVenta: one P.
CartDeUnP == <<Item("P", 1)>>

\* The payments of the calls of procesarVenta: in the base currency, and in
\* a currency that is neither the base one nor USD.
PagosDelServicio ==
  {PagoSobrado, PagoExacto, PagoEUR, PagoEURCorto, PagoEURTasaCero}

NextServicio ==
  \/ \E options \in OpcionesDeVenta, pagos \in PagosDelServicio :
       ProcesarVentaOpciones(CartDeUnP, pagos, "u1", options)
  \/ \E pagos \in {PagoSobrado, PagoMenor, <<>>} :
       FinalizarEncargo(0, pagos, "u1", None)
  \/ \E id \in VentaIds : AnularVenta(id)

SpecServicio == Init /\ [][NextServicio]_vars

(* ---------------- the default exchange rate, on any store -------------- *)

\* The config row 'tasaCambio' the service may find: absent, a rate of 3,
\* zero, a negative number, a text that is not a numeral, an infinity.
FilasConfig ==
  {None, Some(Num(30)), Some(Num(0)), Some(Num(-10)), Some(NaN), Some(Infinity)}

\* What the constructor may be handed: no config, a rate of zero, a rate of
\* 2.
ConfigsDelConstructor == {None, Some(0), TasaCambioEnv}

\* The service is constructed over a store that holds any of the rows; the
\* INSERT its constructor fires has not run yet.
InitTasaCambio ==
  /\ \E fila \in FilasConfig : db = [DbInicial EXCEPT !.config = fila]
  /\ \E config \in ConfigsDelConstructor : servicio = SalesService(config)
  /\ last = NoOp
  /\ uuid = [venta |-> 0, encargo |-> 0]
  /\ tx = [t \in 1..MaxTx |-> TxLibre]

\* The INSERT the constructor fired without awaiting it runs.
EnsureDefaultExchangeRate ==
  /\ servicio.sembrar
  /\ db' = ensureDefaultExchangeRate(db, Val(servicio.tasaCambioFallback))
  /\ servicio' = [servicio EXCEPT !.sembrar = FALSE]
  /\ last' = [NoOp EXCEPT !.op = "ensureDefaultExchangeRate", !.pre = Some(db)]
  /\ UNCHANGED <<uuid, tx>>

\* PUT /api/config, actualizarConfig: the row is inserted, or its value
\* replaced (ON CONFLICT(key) DO UPDATE SET value = excluded.value).  The
\* body's tasaCambio is a number > 0: a finite one, or the infinity a numeral
\* beyond the range of a double parses to.
ActualizarConfig(tasaCambio) ==
  /\ MayorQueCero(tasaCambio)
  /\ db' = [db EXCEPT !.config = Some(tasaCambio)]
  /\ last' = [NoOp EXCEPT !.op = "actualizarConfig", !.pre = Some(db)]
  /\ UNCHANGED <<uuid, tx, servicio>>

\* The rates an administrator sets: 4, 5, and the infinity.
TasasNuevas == {Num(40), Num(50), Infinity}

\* A payment in USD that names no rate, of 3 cents of a dollar; the same
\* after a line in USD that names its own rate of 3.
PagoUSDSinTasa == <<Pago("USD", 30, None)>>

PagoUSDMixto == <<Pago("USD", 10, Some(30)), Pago("usd", 30, None)>>

NextTasaCambio ==
  \/ EnsureDefaultExchangeRate
  \/ \E tasaCambio \in TasasNuevas : ActualizarConfig(tasaCambio)
  \/ \E pagos \in {PagoUSDSinTasa, PagoUSDMixto, PagoSobrado} :
       ProcesarVenta(CartDeUnP, pagos, "u1", None)
  \/ \E pagos \in {PagoUSDSinTasa, <<>>} : FinalizarEncargo(0, pagos, "u1", None)

SpecTasaCambio == InitTasaCambio /\ [][NextTasaCambio]_vars

(* --------------------- scripts/normalize-ventas.ts --------------------- *)

\* JavaScript values as the validators meet them after JSON.parse or from a
\* caller: beside the numbers, a string, undefined (a missing property) and
\* null.
Str(x) == [t |-> "string", s |-> x]

Undefined == [t |-> "undefined"]

Null == [t |-> "null"]

\* !x
Falsy(x) ==
  \/ x.t \in {"undefined", "null", "nan"}
  \/ x.t = "string" /\ x.s = ""
  \/ x.t = "number" /\ x.v = 0

\* A legacy line or payment: an object with the properties given.
Objeto(campos) == [t |-> "object", campos |-> campos]

\* item?.prop
Prop(x, prop) == IF x.t = "object" THEN x.campos[prop] ELSE Undefined

\* The texts parseArray is given: blank, one JSON.parse throws on, and the
\* text of a JSON value (an array with its elements, or a value of another
\* kind).
TextoBlanco == [kind |-> "blank"]

TextoNoJson == [kind |-> "invalid"]

TextoJson(parsed) == [kind |-> "json", parsed |-> parsed]

Arreglo(elems) == [t |-> "array", elems |-> elems]

\* parseArray: the array, or the error thrown.
parseArray(value) ==
  IF value.kind = "blank" THEN [ok |-> TRUE, err |-> "OK", valor |-> <<>>]
  ELSE IF value.kind = "invalid"
    THEN [ok |-> FALSE, err |-> "JsonInvalido", valor |-> <<>>]
  ELSE IF value.parsed.t # "array"
    THEN [ok |-> FALSE, err |-> "NoEsArreglo", valor |-> <<>>]
  ELSE [ok |-> TRUE, err |-> "OK", valor |-> value.parsed.elems]

\* validateItem that does not look at the price.
validateItemSinPrecio(item) ==
  IF Falsy(Prop(item, "productoId")) THEN "SinProductoId"
  ELSE IF ~NumberIsFinite(Prop(item, "cantidad")) THEN "CantidadInvalida"
  ELSE IF Prop(item, "cantidad").v <= 0 THEN "CantidadInvalida"
  ELSE "OK"

\* validateItem: the error thrown, "OK" when the line passes.
validateItem(item) ==
  IF Falsy(Prop(item, "productoId")) THEN "SinProductoId"
  ELSE IF ~NumberIsFinite(Prop(item, "cantidad")) THEN "CantidadInvalida"
  ELSE IF Prop(item, "cantidad").v <= 0 THEN "CantidadInvalida"
  ELSE IF ~NumberIsFinite(Prop(item, "precioUnitario")) THEN "SinPrecio"
  ELSE "OK"

\* validatePago: the error thrown, "OK" when the payment passes.
validatePago(pago) ==
  IF Falsy(Prop(pago, "moneda")) THEN "SinMoneda"
  ELSE IF ~NumberIsFinite(Prop(pago, "cantidad")) THEN "PagoInvalido"
  ELSE IF Prop(pago, "cantidad").v <= 0 THEN "PagoInvalido"
  ELSE "OK"

\* The values a quantity, an amount, a price or a rate is drawn from.
Numeros == {Num(-1), Num(0), Num(1), Num(45), NaN, Infinity, Str("2"), Undefined}

ItemsLegados ==
  {Null}
    \cup { Objeto([productoId |-> p, cantidad |-> c, precioUnitario |-> u]) :
             p \in {Undefined, Str(""), Str("abc")},
             c \in Numeros, u \in Numeros }

PagosLegados ==
  {Null}
    \cup { Objeto([moneda |-> m, cantidad |-> c, tasa |-> r]) :
             m \in {Undefined, Str(""), Str("NIO")},
             c \in Numeros, r \in {Undefined, Num(-1), NaN} }

Textos ==
  { TextoBlanco, TextoNoJson,
    TextoJson(Objeto(<<>>)), TextoJson(Num(5)), TextoJson(Null),
    TextoJson(Arreglo(<<>>)),
    TextoJson(Arreglo(<<Objeto([productoId |-> Str("abc"), cantidad |-> Num(2),
                                precioUnitario |-> Num(45)])>>)) }

\* A validator is about to be called on an input.
InitNormalizar ==
  /\ db = <<>>
  /\ uuid = [venta |-> 0, encargo |-> 0]
  /\ tx = [t \in 1..MaxTx |-> TxLibre]
  /\ servicio = SalesService(None)
  /\ \/ \E x \in Textos : last = [op |-> "entrada", fn |-> "parseArray", arg |-> x]
     \/ \E x \in ItemsLegados :
          last = [op |-> "entrada", fn |-> "validateItem", arg |-> x]
     \/ \E x \in PagosLegados :
          last = [op |-> "entrada", fn |-> "validatePago", arg |-> x]

ParseArray ==
  /\ last.op = "entrada" /\ last.fn = "parseArray"
  /\ last' = [op |-> "parseArray", arg |-> last.arg,
              ok |-> parseArray(last.arg).ok, err |-> parseArray(last.arg).err,
              valor |-> parseArray(last.arg).valor]
  /\ UNCHANGED <<db, uuid, tx, servicio>>

ValidateItem ==
  /\ last.op = "entrada" /\ last.fn = "validateItem"
  /\ last' = [op |-> "validateItem", arg |-> last.arg,
              ok |-> validateItem(last.arg) = "OK",
              err |-> validateItem(last.arg)]
  /\ UNCHANGED <<db, uuid, tx, servicio>>

ValidatePago ==
  /\ last.op = "entrada" /\ last.fn = "validatePago"
  /\ last' = [op |-> "validatePago", arg |-> last.arg,
              ok |-> validatePago(last.arg) = "OK",
              err |-> validatePago(last.arg)]
  /\ UNCHANGED <<db, uuid, tx, servicio>>

NextNormalizar == ParseArray \/ ValidateItem \/ ValidatePago

SpecNormalizar == InitNormalizar /\ [][NextNormalizar]_vars

(* ------------ deposits and finalizations of one order, interleaved ----- *)

\* A request on the order that has not begun.
PeticionLibre ==
  [pc |-> "libre", op |-> "", monto |-> 0, pagos |-> <<>>, visto |-> None,
   productos |-> None]

\* The order the requests in flight name: the one of the store at the start.
EncargoDisputado == 0

\* The deposits in flight: one cent, two cents.
AbonosConcurrentes == {10, 20}

\* The final payments of the finalizations in flight.
PagosConcurrentes == {PagoMenor, PagoSobrado}

InitEncargos ==
  /\ db = DbSembrada
  /\ last = NoOp
  /\ uuid = [venta |-> 0, encargo |-> 0]
  /\ tx = [t \in 1..MaxTx |-> PeticionLibre]
  /\ servicio = ServicioInicial

\* registrarAbono lines 232-238, up to client.transaction(): request t is
\* a deposit of monto.
AbrirAbono(t, monto) ==
  /\ tx[t].pc = "libre"
  /\ monto > 0
  /\ tx' = [tx EXCEPT ![t] = [PeticionLibre EXCEPT !.pc = "abierta",
                                                   !.op = "registrarAbono",
                                                   !.monto = monto]]
  /\ UNCHANGED <<db, last, uuid, servicio>>

\* finalizarEncargo lines 265-272, up to client.transaction(): request t is
\* a finalization with the payments pagos.
AbrirFinalizar(t, pagos) ==
  /\ tx[t].pc = "libre"
  /\ ErrorFinalizarEncargo("u1") = "OK"
  /\ tx' = [tx EXCEPT ![t] = [PeticionLibre EXCEPT !.pc = "abierta",
                                                   !.op = "finalizarEncargo",
                                                   !.pagos = pagos]]
  /\ UNCHANGED <<db, last, uuid, servicio>>

\* fetchEncargoById at the start of either handler (lines 239-242, 273-276):
\* the order, its lines and its deposits are read as last committed; an
\* order that is not PENDIENTE ends the request with a rollback.
LeerEncargo(t) ==
  /\ tx[t].pc = "abierta"
  /\ tx' = [tx EXCEPT
              ![t].pc = IF EsPendiente(db.encargos[EncargoDisputado])
                          THEN "leida" ELSE "abortada",
              ![t].visto = Some([encargos |-> db.encargos,
                                 encargo_items |-> db.encargo_items,
                                 encargo_abonos |-> db.encargo_abonos])]
  /\ UNCHANGED <<db, last, uuid, servicio>>

\* What request t sees: the committed store, with the order tables as it
\* read them and the product rows as it read them, if it did.
VistaDe(t) ==
  LET v == Val(tx[t].visto)
  IN [db EXCEPT !.encargos = v.encargos,
                !.encargo_items = v.encargo_items,
                !.encargo_abonos = v.encargo_abonos,
                !.productos = Val(Coalesce(tx[t].productos, Some(db.productos)))]

\* The handler of finalization t on what it sees, the sale getting ventaId.
FinalizarVisto(t, ventaId) ==
  finalizarEncargo(VistaDe(t), ventaId, EncargoDisputado, tx[t].pagos, "u1",
                   obtenerTasaCambio(db), None)

\* finalizarEncargo lines 278-301, crearVenta lines 321-375: the product
\* rows are read as last committed and the validations run on what was
\* read; a failure rolls the transaction back.
LeerProductos(t) ==
  /\ tx[t].pc = "leida"
  /\ tx[t].op = "finalizarEncargo"
  /\ LET visto == [tx EXCEPT ![t].productos = Some(db.productos)]
         r == finalizarEncargo(
                [VistaDe(t) EXCEPT !.productos = db.productos],
                uuid.venta + 1, EncargoDisputado, tx[t].pagos, "u1",
                obtenerTasaCambio(db), None)
     IN tx' = [visto EXCEPT ![t].pc = IF r.ok THEN "validada" ELSE "abortada"]
  /\ UNCHANGED <<db, last, uuid, servicio>>

\* crearVenta lines 377-447 and finalizarEncargo lines 303-306: the writes
\* of a finalization, held back until the commit; its UPDATEs wait while
\* another finalization that has not ended holds a write on the same product
\* and order rows.
EscribirFinalizar(t) ==
  /\ tx[t].pc = "validada"
  /\ \A u \in (DOMAIN tx) \ {t} :
       ~(tx[u].pc = "escrita" /\ tx[u].op = "finalizarEncargo")
  /\ tx' = [tx EXCEPT ![t].pc = "escrita"]
  /\ UNCHANGED <<db, last, uuid, servicio>>

\* registrarAbono lines 244-253: the INSERT of the deposit, held back until
\* the commit; it touches no row another request writes.
EscribirAbono(t) ==
  /\ tx[t].pc = "leida"
  /\ tx[t].op = "registrarAbono"
  /\ tx' = [tx EXCEPT ![t].pc = "escrita"]
  /\ UNCHANGED <<db, last, uuid, servicio>>

\* withTursoTransaction lines 31-33 for a deposit: the commit adds the row.
ConfirmarAbono(t) ==
  /\ tx[t].pc = "escrita"
  /\ tx[t].op = "registrarAbono"
  /\ LET r == registrarAbono(VistaDe(t), EncargoDisputado, tx[t].monto)
         fila == r.db.encargo_abonos[Len(r.db.encargo_abonos)]
     IN db' = [db EXCEPT !.encargo_abonos = Append(@, fila)]
  /\ tx' = [tx EXCEPT ![t].pc = "confirmada"]
  /\ UNCHANGED <<last, uuid, servicio>>

\* withTursoTransaction lines 31-33 for a finalization: the commit makes its
\* writes visible: the sale rows, the quantity of each product of the order
\* computed from what the transaction had read, and the UPDATE of the order
\* row; the rows it did not write stay as committed.
ConfirmarFinalizar(t) ==
  /\ tx[t].pc = "escrita"
  /\ tx[t].op = "finalizarEncargo"
  /\ LET ventaId == uuid.venta + 1
         r == FinalizarVisto(t, ventaId)
         tocados == ProductosDe(ItemsDeEncargo(VistaDe(t), EncargoDisputado))
     IN /\ db' = [r.db EXCEPT
                    !.productos =
                      [p \in DOMAIN db.productos |->
                         IF p \in tocados THEN r.db.productos[p]
                                          ELSE db.productos[p]],
                    !.encargos =
                      MarcarEntregado(db, EncargoDisputado, ventaId).encargos,
                    !.encargo_items = db.encargo_items,
                    !.encargo_abonos = db.encargo_abonos]
        /\ uuid' = [uuid EXCEPT !.venta = ventaId]
  /\ tx' = [tx EXCEPT ![t].pc = "confirmada"]
  /\ UNCHANGED <<last, servicio>>

NextEncargos ==
  \/ \E t \in DOMAIN tx, monto \in AbonosConcurrentes : AbrirAbono(t, monto)
  \/ \E t \in DOMAIN tx, pagos \in PagosConcurrentes : AbrirFinalizar(t, pagos)
  \/ \E t \in DOMAIN tx : LeerEncargo(t)
  \/ \E t \in DOMAIN tx : LeerProductos(t)
  \/ \E t \in DOMAIN tx : EscribirFinalizar(t)
  \/ \E t \in DOMAIN tx : EscribirAbono(t)
  \/ \E t \in DOMAIN tx : ConfirmarAbono(t)
  \/ \E t \in DOMAIN tx : ConfirmarFinalizar(t)

SpecEncargos == InitEncargos /\ [][NextEncargos]_vars

(* ========================= checked properties ========================== *)

\* The store before the last operation.
Pre == Val(last.pre)

\* The last operation was a settlement through procesarVenta.
FueVenta == last.op = "procesarVenta"

\* The last operation was finalizarEncargo.
FueFinalizar == last.op = "finalizarEncargo"

\* Sum over the rows of s of F.
SumOver(s, F(_)) == SumSeq(MapSeq(s, F))

\* Units of product p requested by the lines of a cart.
Pedido(items, p) ==
  LET F(it) == IF it.productoId = p THEN it.cantidad ELSE 0
  IN SumOver(items, F)

\* Sum of unit price x quantity over the stored lines of sale v.
SubtotalLineas(d, v) ==
  LET F(f) == f.precio_unitario_cents * f.cantidad
  IN SumOver(FilasDe(d.venta_items, "venta_id", v), F)

\* C1: every stored sale has total = sum of its line subtotals (unit price
\* cents x quantity) - discount, with discount <= that sum, so the net total
\* is never negative.
C1_TotalEsSubtotalMenosDescuento ==
  \A v \in DOMAIN db.ventas :
    /\ db.ventas[v].total_nio
         = SubtotalLineas(db, v) - db.ventas[v].descuento_cents
    /\ db.ventas[v].descuento_cents <= SubtotalLineas(db, v)
    /\ db.ventas[v].descuento_cents >= 0
    /\ db.ventas[v].total_nio >= 0

\* C1 witness: a stored sale of two lines with a discount below its gross
\* total, and a stored sale whose discount was capped at its gross total.
C1_Witness ==
  /\ \E v \in DOMAIN db.ventas :
       /\ Len(FilasDe(db.venta_items, "venta_id", v)) = 2
       /\ db.ventas[v].descuento_cents = 5
       /\ db.ventas[v].total_nio > 0
  /\ \E v \in DOMAIN db.ventas :
       /\ db.ventas[v].descuento_cents = 3
       /\ db.ventas[v].total_nio = 0

\* The payment lines a settlement was given, converted and summed.
PagadoSegunArgs(d, pagos) ==
  LET F(p) == convertirPagoACents(p, obtenerTasaCambio(d))
  IN SumOver(pagos, F)

\* The payment lines of the last settlement: those of the call, after the
\* order's deposits when it was a finalize.
PagosDeLaOperacion ==
  IF FueFinalizar THEN PagosCombinados(Pre, Val(last.id), last.pagos)
  ELSE last.pagos

\* C2: after a successful settlement the payment lines, converted to base
\* cents, sum to at least the sale's net total, and the returned change is
\* that sum minus the net total, never negative.
C2_PagoCubreTotalYCambio ==
  ((FueVenta \/ FueFinalizar) /\ last.ok) =>
    LET total == db.ventas[Val(last.ventaId)].total_nio
        pagado == PagadoSegunArgs(Pre, PagosDeLaOperacion)
    IN /\ pagado >= total
       /\ last.cambio = fromCents(pagado - total)
       /\ last.cambio >= 0

\* C2 witness: one P at 3 cents paid with 10 cents gave 7 cents of change,
\* the first sale of the day.
C2_Witness ==
  /\ FueVenta /\ last.ok
  /\ last.items = <<Item("P", 1)>> /\ last.pagos = PagoSobrado
  /\ db.ventas[Val(last.ventaId)].total_nio = 3
  /\ last.cambio = fromCents(7)
  /\ db.productos["P"].stockDisponible = MaxStock - 1

\* The reasons for which a settlement of cart items with payments pagos and
\* discount descuento must fail on store d.
LineaRechazable(d, it) ==
  \/ it.cantidad <= 0
  \/ it.productoId \notin DOMAIN d.productos
  \/ /\ it.productoId \in DOMAIN d.productos
     /\ \/ d.productos[it.productoId].precioVenta = None
           /\ d.productos[it.productoId].precioUnitario = None
        \/ d.productos[it.productoId].stockDisponible < it.cantidad

PagoRechazable(d, pago) ==
  \/ pago.cantidad <= 0
  \/ /\ NormalizarMoneda(pago.moneda) = "USD"
     /\ IF pago.tasa = None THEN obtenerTasaCambio(d) <= 0
        ELSE Val(pago.tasa) <= 0

\* Gross total of a cart at the prices of store d.
TotalBruto(d, items) ==
  LET F(it) == toCents(Val(PrecioBase(d.productos[it.productoId]))) * it.cantidad
  IN SumOver(items, F)

Rechazable(d, items, pagos, descuento) ==
  \/ \E i \in 1..Len(items) : LineaRechazable(d, items[i])
  \/ \E j \in 1..Len(pagos) : PagoRechazable(d, pagos[j])
  \/ descuento # None /\ Val(descuento) < 0
  \/ /\ \A i \in 1..Len(items) : ~LineaRechazable(d, items[i])
     /\ descuento = None \/ Val(descuento) >= 0
     /\ LET bruto == TotalBruto(d, items)
            rebaja == IF descuento = None THEN 0 ELSE Min(Val(descuento), bruto)
        IN PagadoSegunArgs(d, pagos) < bruto - rebaja

\* C3: a settlement that has a reason to fail (non-positive quantity, unknown
\* product, missing price, insufficient stock, insufficient payment,
\* non-positive payment amount or rate, negative discount) fails, and after
\* any failed settlement the store is exactly as before.
C3_VentaFallidaNoEscribe ==
  FueVenta =>
    ((Rechazable(Pre, last.items, last.pagos, last.descuento) \/ ~last.ok)
       => (~last.ok /\ db = Pre))

\* C3 witness: a cart asking for more units than are in stock was rejected
\* for insufficient stock.
C3_Witness ==
  /\ FueVenta /\ ~last.ok /\ last.err = "StockInsuficiente"
  /\ \E i \in 1..Len(last.items) :
       Pre.productos[last.items[i].productoId].stockDisponible
         < last.items[i].cantidad

\* C4 (as claimed): after a successful settlement every product's quantity
\* is its quantity before minus the units of all cart lines that name it.
C4_StockMenosPedido ==
  (FueVenta /\ last.ok) =>
    \A p \in DOMAIN db.productos :
      db.productos[p].stockDisponible
        = Pre.productos[p].stockDisponible - Pedido(last.items, p)

\* C5: the available quantity of every product is >= 0 in every state.
C5_StockNoNegativo ==
  \A p \in DOMAIN db.productos : db.productos[p].stockDisponible >= 0

\* C5 witness: a settlement sold the last unit of a product.
C5_Witness ==
  /\ FueVenta /\ last.ok
  /\ \E p \in DOMAIN db.productos :
       /\ db.productos[p].stockDisponible = 0
       /\ Pre.productos[p].stockDisponible > 0

\* C6 (as claimed): voiding the sale a settlement just produced returns every
\* product's quantity to its value before the settlement and removes the
\* sale with its line items and payments.
C6_VentaLuegoAnular ==
  [][ ( /\ FueVenta /\ last.ok
        /\ last'.op = "anularVenta" /\ last'.ok
        /\ last'.id = last.ventaId )
      => ( /\ \A p \in DOMAIN db'.productos :
                db'.productos[p].stockDisponible
                  = Pre.productos[p].stockDisponible
           /\ Val(last.ventaId) \notin DOMAIN db'.ventas
           /\ FilasDe(db'.venta_items, "venta_id", Val(last.ventaId)) = <<>>
           /\ FilasDe(db'.venta_pagos, "venta_id", Val(last.ventaId)) = <<>> )
    ]_vars

\* C7: an order starts PENDIENTE, its status changes only from PENDIENTE to
\* ENTREGADO or CANCELADO, and no order row disappears.
C7_EstadoSoloDesdePendiente ==
  [][ /\ \A e \in DOMAIN db.encargos :
           /\ e \in DOMAIN db'.encargos
           /\ db'.encargos[e].estado # db.encargos[e].estado
                => /\ db.encargos[e].estado = "PENDIENTE"
                   /\ db'.encargos[e].estado \in {"ENTREGADO", "CANCELADO"}
      /\ \A e \in (DOMAIN db'.encargos) \ (DOMAIN db.encargos) :
           db'.encargos[e].estado = "PENDIENTE"
    ]_vars

\* C7 witness: a finalize has just moved a PENDIENTE order to ENTREGADO,
\* next to an order that is still PENDIENTE.
C7_Witness ==
  /\ FueFinalizar /\ last.ok
  /\ Pre.encargos[Val(last.id)].estado = "PENDIENTE"
  /\ db.encargos[Val(last.id)].estado = "ENTREGADO"
  /\ \E e \in DOMAIN db.encargos : db.encargos[e].estado = "PENDIENTE"

\* The last operation was a deposit or a finalize on an existing order that
\* was not PENDIENTE.
SobreNoPendiente ==
  /\ last.op \in {"registrarAbono", "finalizarEncargo"}
  /\ Val(last.id) \in DOMAIN Pre.encargos
  /\ Pre.encargos[Val(last.id)].estado # "PENDIENTE"

FinalizarPendiente ==
  /\ FueFinalizar
  /\ Val(last.id) \in DOMAIN Pre.encargos
  /\ Pre.encargos[Val(last.id)].estado = "PENDIENTE"

\* D: the deposits of order e in store d, summed in cents.
Abonado(d, e) ==
  LET F(f) == f.monto_cents
  IN SumOver(FilasDe(d.encargo_abonos, "encargo_id", e), F)

\* The re-priced total of order e at the prices of store d, net of the
\* discount capped at the gross total.
TotalRevaluado(d, e, descuento) ==
  LET bruto == TotalBruto(d, ItemsDeEncargo(d, e))
  IN bruto - (IF descuento = None THEN 0 ELSE Min(Val(descuento), bruto))

\* After a successful finalize the order is ENTREGADO and linked to the one
\* sale the call added, and no other order is linked to that sale.
UnaVentaEnlazada ==
  LET e == Val(last.id)
  IN /\ db.encargos[e].estado = "ENTREGADO"
     /\ db.encargos[e].venta_id # None
     /\ db.encargos[e].venta_id = last.ventaId
     /\ Val(last.ventaId) \notin DOMAIN Pre.ventas
     /\ DOMAIN db.ventas = (DOMAIN Pre.ventas) \cup {Val(last.ventaId)}
     /\ \A o \in DOMAIN db.encargos :
          db.encargos[o].venta_id = last.ventaId => o = e

FinalizableSalvoPago(d, e, pagos, usuarioId, descuento) ==
  LET items == ItemsDeEncargo(d, e)
      abonos == FilasDe(d.encargo_abonos, "encargo_id", e)
  IN /\ Trim(usuarioId) # ""
     /\ items # <<>>
     /\ Len(abonos) + Len(pagos) > 0
     /\ \A i \in 1..Len(items) : ~LineaRechazable(d, items[i])
     /\ \A j \in 1..Len(pagos) : ~PagoRechazable(d, pagos[j])
     /\ \A k \in 1..Len(abonos) : abonos[k].monto_cents > 0
     /\ descuento = None \/ Val(descuento) >= 0

ProductosDeEncargo(d, e) ==
  {f.producto_id : f \in {d.encargo_items[i] : i \in 1..Len(d.encargo_items)}
                   \cap {g \in {d.encargo_items[i] : i \in 1..Len(d.encargo_items)} :
                           g.encargo_id = e}}

\* C10: a failed finalize leaves the store exactly as before (the order still
\* PENDIENTE with its deposits, no sale, no stock change); a successful one
\* shows at once the order ENTREGADO, its link to the new sale, the sale's
\* line and payment rows, and a lower stock for exactly the products of the
\* order.
C10_FinalizarAtomico ==
  FueFinalizar =>
    IF ~last.ok THEN db = Pre
    ELSE LET e == Val(last.id)
             v == Val(last.ventaId)
         IN /\ Pre.encargos[e].estado = "PENDIENTE"
            /\ db.encargos[e].estado = "ENTREGADO"
            /\ db.encargos[e].venta_id = Some(v)
            /\ v \in (DOMAIN db.ventas) \ (DOMAIN Pre.ventas)
            /\ db.ventas[v].tipo_venta = "ENCARGO"
            /\ Len(FilasDe(db.venta_items, "venta_id", v))
                 = Len(FilasDe(Pre.encargo_items, "encargo_id", e))
            /\ FilasDe(db.venta_pagos, "venta_id", v) # <<>>
            /\ db.encargo_abonos = Pre.encargo_abonos
            /\ \A p \in DOMAIN db.productos :
                 IF p \in ProductosDeEncargo(Pre, e)
                   THEN db.productos[p].stockDisponible
                          < Pre.productos[p].stockDisponible
                   ELSE db.productos[p] = Pre.productos[p]

\* C10 witness: a finalize of a PENDIENTE order with deposits failed for
\* insufficient payment.
C10_Witness ==
  /\ FinalizarPendiente /\ ~last.ok /\ last.err = "PagoInsuficiente"
  /\ Abonado(Pre, Val(last.id)) > 0

\* The orders linked to a sale.
Enlazados == {e \in DOMAIN db.encargos : db.encargos[e].venta_id # None}

\* The sales of the store that settlement produced from an order.
VentasDeEncargo ==
  {v \in DOMAIN db.ventas : db.ventas[v].tipo_venta = "ENCARGO"}

\* C11: each order is linked to at most one sale and each sale is linked from
\* at most one order: no two orders name the same sale, every link names a
\* sale of the store produced from an order, and every such sale is the one
\* its order names, so no order has two sales.
C11_EnlaceUnoAUno ==
  /\ \A e1, e2 \in Enlazados :
       db.encargos[e1].venta_id = db.encargos[e2].venta_id => e1 = e2
  /\ \A e \in Enlazados : Val(db.encargos[e].venta_id) \in VentasDeEncargo
  /\ \A v \in VentasDeEncargo :
       \E e \in Enlazados : db.encargos[e].venta_id = Some(v)
  /\ Cardinality(VentasDeEncargo) = Cardinality(Enlazados)

\* C11 witness: two orders are finalized, each linked to its own sale.
C11_Witness ==
  /\ Cardinality(Enlazados) = 2
  /\ \A e \in Enlazados : db.encargos[e].estado = "ENTREGADO"

\* C12: an order's estimated total and the estimated unit prices of its
\* items never change after creation: every step, whatever the operation,
\* leaves them as they were for every order of the store.
C12_EstimadoInmutable ==
  [][ \A e \in DOMAIN db.encargos :
        /\ e \in DOMAIN db'.encargos
        /\ db'.encargos[e].total_estimado_cents
             = db.encargos[e].total_estimado_cents
        /\ FilasDe(db'.encargo_items, "encargo_id", e)
             = FilasDe(db.encargo_items, "encargo_id", e)
    ]_vars

\* C12 witness: the price of a product of an order has just changed, so the
\* order's estimated total is no longer what its lines cost today.
C12_Witness ==
  /\ last.op = "actualizarProducto"
  /\ \E e \in DOMAIN db.encargos :
       /\ db.encargos[e].total_estimado_cents
            = TotalBruto(Pre, ItemsDeEncargo(Pre, e))
       /\ db.encargos[e].total_estimado_cents
            # TotalBruto(db, ItemsDeEncargo(db, e))

\* The price settlement quotes for product p in store d, in cents: the sale
\* price when the product has one, else the unit price.
PrecioActualCents(d, p) ==
  toCents(IF d.productos[p].precioVenta # None
            THEN Val(d.productos[p].precioVenta)
            ELSE Val(d.productos[p].precioUnitario))

FueCrearEncargo == last.op = "crearEncargo"

\* C14: creating an order, whether it succeeds or fails, leaves every
\* product (quantity and prices) and every sale, sale line and sale payment
\* as they were; an order with a valid customer, date and lines is created
\* whatever the stock of its products, so never fails for lack of stock.
C14_CrearEncargoNoTocaStock ==
  FueCrearEncargo =>
    /\ db.productos = Pre.productos
    /\ db.ventas = Pre.ventas
    /\ db.venta_items = Pre.venta_items
    /\ db.venta_pagos = Pre.venta_pagos
    /\ last.err # "StockInsuficiente"
    /\ ( /\ last.items # <<>>
         /\ \A i \in 1..Len(last.items) :
              /\ last.items[i].cantidad > 0
              /\ last.items[i].productoId \in DOMAIN Pre.productos
              /\ PrecioBase(Pre.productos[last.items[i].productoId]) # None
         /\ ~last.ok )
         => last.err \in {"ClienteRequerido", "FechaInvalida"}

\* C14 witness: an order was created for more units of a product than the
\* store had of it.
C14_Witness ==
  /\ FueCrearEncargo /\ last.ok
  /\ \E i \in 1..Len(last.items) :
       last.items[i].cantidad
         > Pre.productos[last.items[i].productoId].stockDisponible
  /\ Val(last.id) \in (DOMAIN db.encargos) \ (DOMAIN Pre.encargos)

\* The last operation was registrarAbono.
FueAbono == last.op = "registrarAbono"

\* C15: a successful deposit (on an order that was PENDIENTE) appends one
\* deposit row for that order and changes nothing else in the store; and no
\* operation edits or removes a deposit already recorded: the deposits before
\* an operation are the first deposits after it.
C15_AbonoSoloAgrega ==
  /\ (FueAbono /\ last.ok) =>
       /\ Pre.encargos[Val(last.id)].estado = "PENDIENTE"
       /\ last.monto > 0
       /\ db = [Pre EXCEPT !.encargo_abonos =
                   Append(@, [encargo_id |-> Val(last.id),
                              monto_cents |-> toCents(last.monto)])]
  /\ last.pre # None =>
       /\ Len(db.encargo_abonos) >= Len(Pre.encargo_abonos)
       /\ SubSeq(db.encargo_abonos, 1, Len(Pre.encargo_abonos))
            = Pre.encargo_abonos

\* C15 witness: a deposit was recorded on an order next to the deposit of
\* another order, which is still there.
C15_Witness ==
  /\ FueAbono /\ last.ok
  /\ Len(Pre.encargo_abonos) = 1
  /\ Pre.encargo_abonos[1].encargo_id # Val(last.id)
  /\ Len(db.encargo_abonos) = 2
  /\ db.encargo_abonos[1] = Pre.encargo_abonos[1]

\* C16 (as claimed): the engine offers a cancel operation: once an order is
\* created, and while it is PENDIENTE, some operation can move it to
\* CANCELADO and leave the products, the deposits and the sales as they are.
C16_CancelarOfrecido ==
  (FueCrearEncargo /\ last.ok) =>
    \A e \in DOMAIN db.encargos :
      db.encargos[e].estado = "PENDIENTE" =>
        ENABLED ( /\ Next
                  /\ db'.encargos[e].estado = "CANCELADO"
                  /\ db'.productos = db.productos
                  /\ db'.encargo_abonos = db.encargo_abonos
                  /\ db'.ventas = db.ventas )

\* Units of product p sold by the settlements that committed.
VendidoConfirmado(p) ==
  LET F(t) == IF tx[t].pc = "confirmada" THEN Pedido(tx[t].items, p) ELSE 0
  IN SumOver([t \in 1..MaxTx |-> t], F)

\* C17 (as claimed): with read-committed isolation, the settlements that
\* commit never sell, together, more units of a product than it had, and
\* its quantity is never below zero nor above its initial quantity minus
\* the units sold by the committed sales.
C17_SinSobreventa ==
  \A p \in DOMAIN db.productos :
    /\ VendidoConfirmado(p) <= ProductosIniciales[p].stockDisponible
    /\ db.productos[p].stockDisponible >= 0
    /\ db.productos[p].stockDisponible
         <= ProductosIniciales[p].stockDisponible - VendidoConfirmado(p)

\* The rate that applies to a USD line: its own when it has one, else the
\* system default of store d.
TasaEfectiva(d, pago) ==
  IF pago.tasa # None THEN Val(pago.tasa) ELSE obtenerTasaCambio(d)

\* round(A x R x 100) for a USD line of amount A (thousandths) at rate R
\* (tenths), halves rounded up; the amount in cents for any other line.
CentsClaimed(d, pago) ==
  IF NormalizarMoneda(pago.moneda) = "USD"
    THEN (2 * pago.cantidad * TasaEfectiva(d, pago) + 100) \div 200
    ELSE (2 * pago.cantidad + 10) \div 20

\* C18: a settlement with a USD line whose effective rate is <= 0 fails and
\* writes nothing; a settlement that succeeds has counted each USD line of
\* amount A at effective rate R as round(A x R x 100) cents.
C18_ConversionUSD ==
  (FueVenta \/ FinalizarPendiente) =>
    LET pagos == PagosDeLaOperacion
        F(p) == CentsClaimed(Pre, p)
    IN /\ (\E i \in 1..Len(pagos) :
             /\ NormalizarMoneda(pagos[i].moneda) = "USD"
             /\ TasaEfectiva(Pre, pagos[i]) <= 0)
            => (~last.ok /\ db = Pre)
       /\ last.ok => last.totalPagadoCents = SumOver(pagos, F)

\* C18 witness: a sale paid with two USD lines, 0.015 at its own rate 3.0
\* (4.5 cents, counted as 5) and 0.020 at the default rate 2.0 (4 cents).
C18_Witness ==
  /\ FueVenta /\ last.ok
  /\ last.pagos = PagoUSD
  /\ last.totalPagadoCents = 9
  /\ FilasDe(db.venta_pagos, "venta_id", Val(last.ventaId))[1].tasa = Some(30)

\* C19: the unit prices of a sale's lines and the sale's total, as the
\* historical query returns them, are the same after every step as before
\* it, for every sale that is in the store before and after the step.
C19_VentaEsInstantanea ==
  [][ \A v \in (DOMAIN db.ventas) \cap (DOMAIN db'.ventas) :
        /\ obtenerVentaPorId(db', v).items = obtenerVentaPorId(db, v).items
        /\ obtenerVentaPorId(db', v).totalNIO
             = obtenerVentaPorId(db, v).totalNIO
    ]_vars

\* C19 witness: the sale price of a product has just changed, and a sale
\* made before still shows the product at the price it was sold for, which
\* is not today's price.
C19_Witness ==
  /\ last.op = "actualizarProducto"
  /\ \E v \in DOMAIN db.ventas :
       LET items == obtenerVentaPorId(db, v).items
       IN /\ obtenerVentaPorId(Pre, v).items = items
          /\ items[1].precioUnitario
               = fromCents(PrecioActualCents(Pre, items[1].productoId))
          /\ items[1].precioUnitario
               # fromCents(PrecioActualCents(db, items[1].productoId))

\* C20: voiding a sale id that is not in the store, the id of a sale already
\* voided included, fails with the sale-not-found error and leaves the store,
\* every product quantity with it, as it was.
C20_AnularInexistenteFalla ==
  (last.op = "anularVenta" /\ Val(last.id) \notin DOMAIN Pre.ventas) =>
    /\ ~last.ok
    /\ last.err = "VentaNoEncontrada"
    /\ db = Pre

\* C20 witness: the id voided had been given to a sale and that sale, which
\* took stock, is gone: it is voided a second time, and the quantities are
\* those the first void restored.
C20_Witness ==
  /\ last.op = "anularVenta"
  /\ ~last.ok
  /\ Val(last.id) <= uuid.venta
  /\ Val(last.id) \notin DOMAIN Pre.ventas
  /\ db.productos = ProductosIniciales

\* The cart the last settlement priced: the lines of the call, or the lines
\* of the order when it was a finalize.
ItemsDeLaOperacion ==
  IF FueFinalizar THEN ItemsDeEncargo(Pre, Val(last.id)) ELSE last.items

\* The discount the last settlement was asked for, in cents (0 when none).
DescuentoPedido == IF last.descuento = None THEN 0 ELSE Val(last.descuento)

\* C21: after a successful settlement or finalize asked for discount d >= 0
\* on a cart of gross total g, the sale stores the discount min(d, g) and
\* the net total g - min(d, g); with d > g the net total is 0.
C21_DescuentoEsMinimo ==
  ((FueVenta \/ FueFinalizar) /\ last.ok) =>
    LET v == db.ventas[Val(last.ventaId)]
        g == TotalBruto(Pre, ItemsDeLaOperacion)
        d == DescuentoPedido
    IN /\ d >= 0
       /\ v.descuento_cents = (IF d < g THEN d ELSE g)
       /\ v.total_nio = g - (IF d < g THEN d ELSE g)
       /\ d > g => v.total_nio = 0

\* C21 witness: a sale of gross total 3 asked for a discount of 5 went
\* through with discount 3 and net total 0; before it, a sale had been
\* given a discount below its gross total.
C21_Witness ==
  /\ FueVenta /\ last.ok
  /\ DescuentoPedido = 5
  /\ TotalBruto(Pre, last.items) = 3
  /\ db.ventas[Val(last.ventaId)].total_nio = 0
  /\ \E w \in DOMAIN Pre.ventas :
       /\ Pre.ventas[w].descuento_cents = 5
       /\ Pre.ventas[w].total_nio > 0

\* The last operation was a settlement or a finalize one of whose payment
\* lines, the order's deposits included, has an amount <= 0.
ConPagoNoPositivo ==
  /\ FueVenta \/ FueFinalizar
  /\ \E j \in 1..Len(PagosDeLaOperacion) : PagosDeLaOperacion[j].cantidad <= 0

PasaHastaElDescuento ==
  /\ Trim(last.usuarioId) # ""
  /\ FueFinalizar => FinalizarPendiente
  /\ ItemsDeLaOperacion # <<>>
  /\ PagosDeLaOperacion # <<>>
  /\ \A j \in 1..Len(PagosDeLaOperacion) :
       NormalizarMoneda(PagosDeLaOperacion[j].moneda) = "USD"
         => TasaEfectiva(Pre, PagosDeLaOperacion[j]) > 0
  /\ \A i \in 1..Len(ItemsDeLaOperacion) :
       ~LineaRechazable(Pre, ItemsDeLaOperacion[i])

\* The checks the code runs before it converts the payments: those before
\* the discount, and the discount is not negative.
PasaHastaLosPagos == PasaHastaElDescuento /\ DescuentoPedido >= 0

FueConsulta == last.op = "obtenerVentaPorId" /\ last.ok

\* The normalized lines of sale v in store d, as VentaItem objects.
LineasNormalizadas(d, v) ==
  [i \in 1..Len(FilasDe(d.venta_items, "venta_id", v)) |->
     [productoId |-> FilasDe(d.venta_items, "venta_id", v)[i].producto_id,
      cantidad |-> FilasDe(d.venta_items, "venta_id", v)[i].cantidad,
      precioUnitario |->
        10 * FilasDe(d.venta_items, "venta_id", v)[i].precio_unitario_cents]]

\* The normalized payments of sale v in store d, as DetallePago objects.
PagosNormalizados(d, v) ==
  [i \in 1..Len(FilasDe(d.venta_pagos, "venta_id", v)) |->
     [moneda |-> FilasDe(d.venta_pagos, "venta_id", v)[i].moneda,
      cantidad |-> 10 * FilasDe(d.venta_pagos, "venta_id", v)[i].cantidad_cents,
      tasa |-> FilasDe(d.venta_pagos, "venta_id", v)[i].tasa]]

\* What a JSON column holds when it parses, else the empty list.
DeColumna(column) ==
  IF column.kind = "text" /\ column.valid THEN column.value ELSE <<>>

\* C23: the historical query returns the normalized lines of a sale as its
\* items when the sale has any, and what the items column holds only when
\* it has none; the same for the payments.
C23_NormalizadoManda ==
  FueConsulta =>
    LET v == Val(last.id)
        venta == Val(last.venta)
    IN /\ venta.items = IF LineasNormalizadas(db, v) # <<>>
                          THEN LineasNormalizadas(db, v)
                          ELSE DeColumna(db.ventas[v].items)
       /\ venta.pagos = IF PagosNormalizados(db, v) # <<>>
                          THEN PagosNormalizados(db, v)
                          ELSE DeColumna(db.ventas[v].pagos)

\* C23 witness: a sale with normalized lines that differ from its items
\* column, and no normalized payment, was returned with the normalized
\* lines and the payments of the pagos column.
C23_Witness ==
  /\ FueConsulta
  /\ db.ventas[Val(last.id)].items = JSONstringify(ItemsLegado)
  /\ Len(LineasNormalizadas(db, Val(last.id))) = 2
  /\ Val(last.venta).items = LineasNormalizadas(db, Val(last.id))
  /\ PagosNormalizados(db, Val(last.id)) = <<>>
  /\ Val(last.venta).pagos = PagosLegado

\* A finite number > 0.
FinitoPositivo(x) == x.t = "number" /\ x.v > 0

\* A property that is missing or the empty string.
Vacio(x) == x.t \in {"undefined", "null"} \/ (x.t = "string" /\ x.s = "")

\* A well-formed legacy line: a productoId, a finite quantity > 0 and a
\* finite price.
ItemBienFormado(item) ==
  /\ item.t = "object"
  /\ ~Vacio(item.campos.productoId)
  /\ FinitoPositivo(item.campos.cantidad)
  /\ item.campos.precioUnitario.t = "number"

\* A well-formed legacy payment: a currency and a finite amount > 0.
PagoBienFormado(pago) ==
  /\ pago.t = "object"
  /\ ~Vacio(pago.campos.moneda)
  /\ FinitoPositivo(pago.campos.cantidad)

\* validateItem and validatePago pass exactly the well-formed records.
ValidadoresExactos ==
  /\ last.op = "validateItem" => (last.ok <=> ItemBienFormado(last.arg))
  /\ last.op = "validatePago" => (last.ok <=> PagoBienFormado(last.arg))

\* C24 (as claimed): parseArray returns the array for the text of a JSON
\* array and fails for every other text; validateItem and validatePago pass
\* exactly the well-formed records.
C24_ValidadoresSoloBienFormados ==
  /\ ValidadoresExactos
  /\ last.op = "parseArray" =>
       /\ last.ok <=> (last.arg.kind = "json" /\ last.arg.parsed.t = "array")
       /\ last.ok => last.valor = last.arg.parsed.elems

\* C24 (amended): parseArray returns the empty array for a blank text and
\* the array for the text of a JSON array, and fails for every other text;
\* validateItem and validatePago pass exactly the well-formed records.
C24_ValidadoresYTextoBlanco ==
  /\ ValidadoresExactos
  /\ last.op = "parseArray" =>
       /\ last.ok <=> \/ last.arg.kind = "blank"
                      \/ last.arg.kind = "json" /\ last.arg.parsed.t = "array"
       /\ (last.ok /\ last.arg.kind = "blank") => last.valor = <<>>
       /\ (last.ok /\ last.arg.kind = "json") =>
            last.valor = last.arg.parsed.elems

\* C24 witness: validateItem has rejected a line whose only defect is a
\* price that is not a finite number.
C24_Witness ==
  /\ last.op = "validateItem" /\ ~last.ok
  /\ last.arg.t = "object"
  /\ last.arg.campos.productoId = Str("abc")
  /\ last.arg.campos.cantidad = Num(1)
  /\ last.arg.campos.precioUnitario = NaN

\* n / d rounded to the nearest integer, a tie going to the even one
\* (n >= 0, d > 0).
RedondeoAlPar(n, d) ==
  LET q == n \div d
      r == n % d
  IN IF 2 * r < d THEN q
     ELSE IF 2 * r > d THEN q + 1
     ELSE IF q % 2 = 0 THEN q ELSE q + 1

\* A x R x 100 of a USD line lies exactly halfway between two integers.
EnEmpate(d, pago) ==
  /\ NormalizarMoneda(pago.moneda) = "USD"
  /\ (pago.cantidad * TasaEfectiva(d, pago)) % 100 = 50

\* The cents of a payment line with the USD conversion rounded half-to-even.
CentsAlPar(d, pago) ==
  IF NormalizarMoneda(pago.moneda) = "USD"
    THEN RedondeoAlPar(pago.cantidad * TasaEfectiva(d, pago), 100)
    ELSE CentsClaimed(d, pago)

\* C25: a successful settlement with a USD line whose A x R x 100 is a tie
\* has counted each USD line as A x R x 100 rounded to the nearest cent, a
\* tie going to the even cent: the paid total it returns is the sum of the
\* lines so converted.
C25_EmpateAlPar ==
  ( /\ FueVenta \/ FinalizarPendiente
    /\ last.ok
    /\ \E j \in 1..Len(PagosDeLaOperacion) :
         EnEmpate(Pre, PagosDeLaOperacion[j]) ) =>
    LET F(p) == CentsAlPar(Pre, p)
    IN last.totalPagadoCents = SumOver(PagosDeLaOperacion, F)

\* The last operation was a settlement or a finalize asked for a negative
\* discount.
ConDescuentoNegativo == (FueVenta \/ FueFinalizar) /\ DescuentoPedido < 0

\* C26 (as claimed): a settlement, or a finalize of a PENDIENTE order, given
\* a negative discount fails with the invalid-discount error and changes
\* nothing.
C26_DescuentoNegativoSiempreError ==
  (ConDescuentoNegativo /\ (FueVenta \/ FinalizarPendiente)) =>
    (~last.ok /\ last.err = "DescuentoNegativo" /\ db = Pre)

\* C26 (amended): a settlement or finalize given a negative discount fails
\* and changes nothing; the error is invalid-discount when the call passes
\* every check that runs before the discount is looked at, whatever the
\* payments amount to.
C26_DescuentoNegativoFalla ==
  ConDescuentoNegativo =>
    /\ ~last.ok
    /\ db = Pre
    /\ PasaHastaElDescuento => last.err = "DescuentoNegativo"

\* C26 witness: a finalize of a PENDIENTE order, over-paid, was rejected for
\* its negative discount, and so had a settlement before it.
C26_Witness ==
  /\ FinalizarPendiente /\ ~last.ok /\ last.err = "DescuentoNegativo"
  /\ DescuentoPedido = -1
  /\ PagadoSegunArgs(Pre, PagosDeLaOperacion)
       >= TotalBruto(Pre, ItemsDeLaOperacion)
  /\ db.encargos[Val(last.id)] = Pre.encargos[Val(last.id)]
  /\ db.encargos[Val(last.id)].estado = "PENDIENTE"

\* C27: a transaction withTursoTransaction has finished with ended in
\* exactly one of commit and rollback; it was committed only if the handler
\* and the commit raised no error, and then the result was returned; when
\* the handler or the commit raised an error it was rolled back and that
\* error was thrown to the caller.
C27_CommitORollback ==
  \A t \in DOMAIN tx :
    tx[t].pc = "fin" =>
      /\ tx[t].cierre \in {"commit", "rollback"}
      /\ tx[t].cierre = "commit" =>
           (tx[t].error = None /\ tx[t].retorno /\ tx[t].lanzado = None)
      /\ tx[t].error # None =>
           (tx[t].cierre = "rollback" /\ tx[t].lanzado = tx[t].error
              /\ ~tx[t].retorno)

\* The deposits of order e in store d, in the order they were registered.
AbonosDe(d, e) == FilasDe(d.encargo_abonos, "encargo_id", e)

\* C28: the sale of a successful finalize has one payment row per deposit
\* of the order, in the base currency, without rate and of the deposit's
\* cents, followed by one row per additional line of the caller; so it has
\* at least as many payment rows as the order has deposits, and the paid
\* total returned is D + P.
C28_AbonosLuegoPagos ==
  (FinalizarPendiente /\ last.ok) =>
    LET e == Val(last.id)
        abonos == AbonosDe(Pre, e)
        filas == FilasDe(db.venta_pagos, "venta_id", Val(last.ventaId))
    IN /\ Len(filas) = Len(abonos) + Len(last.pagos)
       /\ Len(filas) >= Len(AbonosDe(db, e))
       /\ \A i \in 1..Len(abonos) :
            /\ filas[i].moneda = "NIO"
            /\ filas[i].tasa = None
            /\ filas[i].cantidad_cents = abonos[i].monto_cents
       /\ \A j \in 1..Len(last.pagos) :
            /\ filas[Len(abonos) + j].moneda
                 = NormalizarMoneda(last.pagos[j].moneda)
            /\ filas[Len(abonos) + j].cantidad_cents
                 = (2 * last.pagos[j].cantidad + 10) \div 20
       /\ last.totalPagadoCents
            = Abonado(Pre, e) + PagadoSegunArgs(Pre, last.pagos)

\* C28 witness: an order with one deposit of 2 cents was finalized with the
\* two USD lines: its sale has three payment rows, the first the deposit.
C28_Witness ==
  /\ FinalizarPendiente /\ last.ok
  /\ Len(AbonosDe(Pre, Val(last.id))) = 1
  /\ Abonado(Pre, Val(last.id)) = 2
  /\ last.pagos = PagoUSD
  /\ Len(FilasDe(db.venta_pagos, "venta_id", Val(last.ventaId))) = 3
  /\ FilasDe(db.venta_pagos, "venta_id", Val(last.ventaId))[1].moneda = "NIO"
  /\ FilasDe(db.venta_pagos, "venta_id", Val(last.ventaId))[1].cantidad_cents = 2

\* The lines of order e in store d.
LineasDeEncargo(d, e) == FilasDe(d.encargo_items, "encargo_id", e)

\* The sum over the lines of order e of quantity x locked price, in cents.
SumaDeLineas(d, e) ==
  LET S(x) == x.cantidad * x.precio_estimado_cents
  IN SumSeq(MapSeq(LineasDeEncargo(d, e), S))

\* C29: in every state, every order's stored estimated total is the sum over
\* its lines of quantity x estimated unit price in cents; the lines of an
\* order just created carry, for each product, the sale price (the unit cost
\* when there is no sale price) the store held when the order was created;
\* and no later operation changes an order's lines or its total.
C29_TotalEstimadoEsSuma ==
  /\ \A e \in DOMAIN db.encargos :
       db.encargos[e].total_estimado_cents = SumaDeLineas(db, e)
  /\ (FueCrearEncargo /\ last.ok) =>
       LET e == Val(last.id)
           lineas == LineasDeEncargo(db, e)
       IN /\ e \notin DOMAIN Pre.encargos
          /\ Len(lineas) = Len(last.items)
          /\ \A i \in 1..Len(lineas) :
               /\ lineas[i].producto_id = last.items[i].productoId
               /\ lineas[i].cantidad = last.items[i].cantidad
               /\ lineas[i].precio_estimado_cents
                    = PrecioActualCents(Pre, lineas[i].producto_id)
  /\ last.pre # None =>
       \A e \in DOMAIN Pre.encargos :
         /\ e \in DOMAIN db.encargos
         /\ LineasDeEncargo(db, e) = LineasDeEncargo(Pre, e)
         /\ db.encargos[e].total_estimado_cents
              = Pre.encargos[e].total_estimado_cents

\* C29 happens: an order of two lines, one product with a sale price and one
\* with a unit cost only, exists with a total that is no longer what the
\* store's current prices would give, after a later operation.
C29_Witness ==
  /\ ~FueCrearEncargo
  /\ \E e \in DOMAIN db.encargos :
       /\ Len(LineasDeEncargo(db, e)) = 2
       /\ \E i \in 1..2 :
            db.productos[LineasDeEncargo(db, e)[i].producto_id].precioVenta = None
       /\ \E i \in 1..2 :
            LineasDeEncargo(db, e)[i].precio_estimado_cents
              # PrecioActualCents(db, LineasDeEncargo(db, e)[i].producto_id)
       /\ db.encargos[e].total_estimado_cents = SumaDeLineas(db, e)

\* The last operation settled: a direct sale or the finalize of an order.
FueLiquidacion == FueVenta \/ FueFinalizar

\* The default rate (tenths) as stated: the store's value when the store
\* holds a finite value > 0, else the fallback handed to the constructor when
\* it is > 0, else 1.
TasaPorDefecto(d) ==
  IF d.config # None /\ Val(d.config).t = "number" /\ Val(d.config).v > 0
    THEN Val(d.config).v
  ELSE IF servicio.tasaCambioFallback # None /\ Val(servicio.tasaCambioFallback) > 0
    THEN Val(servicio.tasaCambioFallback)
  ELSE 10

\* The lines of the last settlement that are in USD and name no rate.
LineasSinTasa ==
  { i \in 1..Len(PagosDeLaOperacion) :
      /\ NormalizarMoneda(PagosDeLaOperacion[i].moneda) = "USD"
      /\ PagosDeLaOperacion[i].tasa = None }

\* Cents of line pago at rate tasa (tenths), halves rounded up.
CentsALaTasa(pago, tasa) ==
  IF NormalizarMoneda(pago.moneda) = "USD"
    THEN (2 * pago.cantidad * tasa + 100) \div 200
    ELSE (2 * pago.cantidad + 10) \div 20

\* The paid total of the last settlement with every USD line that names no
\* rate converted at the default rate of the store as the settlement found
\* it.
PagadoALaTasaPorDefecto ==
  LET F(p) == CentsALaTasa(p, IF p.tasa # None THEN Val(p.tasa)
                                ELSE TasaPorDefecto(Pre))
  IN SumOver(PagosDeLaOperacion, F)

\* C30: a settlement that is given a USD line without a rate of its own
\* converts and records that line at the default rate of the store as it is
\* when the settlement starts: the store's tasaCambio when that is finite and
\* > 0, else the fallback of the configuration when > 0, else 1.  The rate is
\* read anew by every settlement, so a rate committed before a settlement
\* starts is the one that settlement uses; the default is > 0, so such a line
\* never fails for its rate.
C30_TasaPorDefecto ==
  (FueLiquidacion /\ LineasSinTasa # {}) =>
    /\ last.err # "TasaInvalida"
    /\ last.ok =>
         /\ last.totalPagadoCents = PagadoALaTasaPorDefecto
         /\ \A i \in LineasSinTasa :
              FilasDe(db.venta_pagos, "venta_id", Val(last.ventaId))[i].tasa
                = Some(TasaPorDefecto(Pre))

\* C30 happens: a settlement with a USD line without rate succeeds at the
\* rate of 4 an administrator had set, on a service whose fallback is 2.
C30_Witness ==
  /\ FueLiquidacion /\ last.ok /\ LineasSinTasa # {}
  /\ Pre.config = Some(Num(40))
  /\ servicio.tasaCambioFallback = Some(20)
  /\ last.totalPagadoCents = PagadoALaTasaPorDefecto

\* C30 happens on each branch: the fallback serves when the store's row is
\* not a finite number > 0, and 1 when there is no fallback either.
C30_WitnessFallback ==
  /\ FueLiquidacion /\ last.ok /\ LineasSinTasa # {}
  /\ Pre.config \in {Some(NaN), Some(Infinity), Some(Num(0)), Some(Num(-10))}
  /\ TasaPorDefecto(Pre) = 20

C30_WitnessUno ==
  /\ FueLiquidacion /\ last.ok /\ LineasSinTasa # {}
  /\ Pre.config \in {None, Some(NaN), Some(Infinity), Some(Num(0)), Some(Num(-10))}
  /\ TasaPorDefecto(Pre) = 10

\* The last operation prices lines: a settlement, the finalize of a
\* PENDIENTE order, or the creation of an order.
FuePrecioDeLineas == FueVenta \/ FinalizarPendiente \/ FueCrearEncargo

\* Line it names a product store d does not have.
Desconocido(d, it) == it.productoId \notin DOMAIN d.productos

\* Line it names a product of store d that has neither sale price nor unit
\* cost.
SinPrecio(d, it) ==
  /\ it.productoId \in DOMAIN d.productos
  /\ d.productos[it.productoId].precioVenta = None
  /\ d.productos[it.productoId].precioUnitario = None

\* Line it asks for more units than store d has of its product; creating an
\* order does not look at the stock.
SinStock(d, it) ==
  /\ ~FueCrearEncargo
  /\ it.productoId \in DOMAIN d.productos
  /\ d.productos[it.productoId].stockDisponible < it.cantidad

\* The lines of the last operation that cannot be priced or served, in
\* cart order.
LineasMalas ==
  { i \in 1..Len(ItemsDeLaOperacion) :
      \/ Desconocido(Pre, ItemsDeLaOperacion[i])
      \/ SinPrecio(Pre, ItemsDeLaOperacion[i])
      \/ SinStock(Pre, ItemsDeLaOperacion[i]) }

\* The first of them.
PrimeraLineaMala ==
  ItemsDeLaOperacion[CHOOSE i \in LineasMalas : \A j \in LineasMalas : i <= j]

\* The checks that run before the lines are priced pass: for a settlement or
\* finalize, the user is not blank, there is a line and a payment or deposit
\* and every USD line has a rate > 0; every quantity is > 0.  An order's
\* customer and date are not kept by the model: see the error instead.
PasaHastaLasLineas ==
  /\ ItemsDeLaOperacion # <<>>
  /\ \A i \in 1..Len(ItemsDeLaOperacion) : ItemsDeLaOperacion[i].cantidad > 0
  /\ FueCrearEncargo => last.err \notin {"ClienteRequerido", "FechaInvalida"}
  /\ ~FueCrearEncargo =>
       /\ Trim(last.usuarioId) # ""
       /\ PagosDeLaOperacion # <<>>
       /\ \A j \in 1..Len(PagosDeLaOperacion) :
            NormalizarMoneda(PagosDeLaOperacion[j].moneda) = "USD"
              => TasaEfectiva(Pre, PagosDeLaOperacion[j]) > 0

\* The unit price in cents the last operation stored for its i-th line.
PrecioGuardado(i) ==
  IF FueCrearEncargo
    THEN FilasDe(db.encargo_items, "encargo_id", Val(last.id))[i].precio_estimado_cents
    ELSE FilasDe(db.venta_items, "venta_id", Val(last.ventaId))[i].precio_unitario_cents

\* C31 (as claimed): a settlement, finalize or order creation with a line
\* whose product has neither price fails with the missing-price error, and
\* with a line whose product does not exist fails with the
\* product-not-found error, writing nothing.
C31_SinPrecioSiempreError ==
  FuePrecioDeLineas =>
    /\ (\E i \in 1..Len(ItemsDeLaOperacion) : SinPrecio(Pre, ItemsDeLaOperacion[i]))
         => (~last.ok /\ last.err = "PrecioNoDefinido" /\ db = Pre)
    /\ (\E i \in 1..Len(ItemsDeLaOperacion) : Desconocido(Pre, ItemsDeLaOperacion[i]))
         => (~last.ok /\ last.err = "ProductoNoEncontrado" /\ db = Pre)

\* C31 (amended): the unit price stored for a line is the product's sale
\* price when one is set, else its unit cost.  A settlement, finalize or
\* order creation with a line whose product does not exist or has neither
\* price fails and writes nothing; when the call passes the checks that run
\* before the lines, the error is that of the first line that cannot be
\* served: product-not-found when its product does not exist, missing-price
\* when its product has neither price and (for a settlement or finalize) is
\* in stock for the quantity asked.  Neither error is raised without such a
\* line.
C31_PrecioDeLinea ==
  FuePrecioDeLineas =>
    /\ last.ok =>
         \A i \in 1..Len(ItemsDeLaOperacion) :
           LET producto == Pre.productos[ItemsDeLaOperacion[i].productoId]
           IN PrecioGuardado(i) =
                toCents(IF producto.precioVenta # None
                          THEN Val(producto.precioVenta)
                          ELSE Val(producto.precioUnitario))
    /\ (\E i \in 1..Len(ItemsDeLaOperacion) :
          \/ SinPrecio(Pre, ItemsDeLaOperacion[i])
          \/ Desconocido(Pre, ItemsDeLaOperacion[i]))
         => (~last.ok /\ db = Pre)
    /\ (PasaHastaLasLineas /\ LineasMalas # {}) =>
         /\ Desconocido(Pre, PrimeraLineaMala)
              => last.err = "ProductoNoEncontrado"
         /\ (SinPrecio(Pre, PrimeraLineaMala) /\ ~SinStock(Pre, PrimeraLineaMala))
              => last.err = "PrecioNoDefinido"
    /\ last.err = "PrecioNoDefinido" =>
         \E i \in 1..Len(ItemsDeLaOperacion) : SinPrecio(Pre, ItemsDeLaOperacion[i])
    /\ last.err = "ProductoNoEncontrado" =>
         \E i \in 1..Len(ItemsDeLaOperacion) : Desconocido(Pre, ItemsDeLaOperacion[i])

\* C31 witness: an order for the product without price was refused with the
\* missing-price error after a settlement for the unknown product had been
\* refused with product-not-found, both leaving the store as it was; the
\* store holds a sale of the product that has a unit cost only.
C31_Witness ==
  /\ FueCrearEncargo /\ ~last.ok /\ last.err = "PrecioNoDefinido"
  /\ SinPrecio(Pre, last.items[1])
  /\ db = Pre
  /\ \E i \in 1..Len(db.venta_items) :
       /\ db.venta_items[i].producto_id = "Q"
       /\ db.venta_items[i].precio_unitario_cents = 1

\* C32 (as claimed): a settlement or finalize succeeds only if, for every
\* product, the units of all the cart lines that name it together are at
\* most the quantity the store had of it when the settlement started; so the
\* lines a sale records for a product never exceed what was in stock.
C32_VendidoNoSuperaStock ==
  ((FueVenta \/ FueFinalizar) /\ last.ok) =>
    \A p \in DOMAIN Pre.productos :
      /\ Pedido(ItemsDeLaOperacion, p) <= Pre.productos[p].stockDisponible
      /\ SumSeq([i \in 1..Len(FilasDe(db.venta_items, "venta_id", Val(last.ventaId))) |->
                   IF FilasDe(db.venta_items, "venta_id", Val(last.ventaId))[i].producto_id = p
                     THEN FilasDe(db.venta_items, "venta_id", Val(last.ventaId))[i].cantidad
                     ELSE 0])
           <= Pre.productos[p].stockDisponible

\* C33: in every state, every ENTREGADO order has a sale link and the sale it
\* names exists; a void of the sale an order produced is refused by the
\* store (encargos.venta_id REFERENCES ventas(id)) and rolled back, so it
\* leaves the order, the sale and every quantity as they were.
C33_EnlaceExiste ==
  /\ \A e \in DOMAIN db.encargos :
       db.encargos[e].estado = "ENTREGADO" =>
         /\ db.encargos[e].venta_id # None
         /\ Val(db.encargos[e].venta_id) \in DOMAIN db.ventas
  /\ ( /\ last.op = "anularVenta"
       /\ \E e \in DOMAIN Pre.encargos : Pre.encargos[e].venta_id = last.id )
       => (~last.ok /\ db = Pre)

\* C33 witness: the void of the sale an order's finalize produced has just
\* been refused; the order is ENTREGADO and its sale is still there with its
\* lines.
C33_Witness ==
  /\ last.op = "anularVenta" /\ ~last.ok /\ last.err = "ForeignKey"
  /\ \E e \in DOMAIN db.encargos :
       /\ db.encargos[e].estado = "ENTREGADO"
       /\ db.encargos[e].venta_id = last.id
       /\ Val(last.id) \in DOMAIN db.ventas
       /\ FilasDe(db.venta_items, "venta_id", Val(last.id)) # <<>>

\* The orders of the store that link to sale v.
OrdenesDe(v) == {e \in DOMAIN db.encargos : db.encargos[e].venta_id = Some(v)}

\* C34 (as claimed): every sale of kind ENCARGO is linked from exactly one
\* order, which is ENTREGADO, and every sale of kind DIRECTA is linked from no
\* order, whatever the options procesarVenta was called with.
C34_TipoVentaSegunEnlace ==
  \A v \in DOMAIN db.ventas :
    /\ db.ventas[v].tipo_venta = "ENCARGO" =>
         /\ Cardinality(OrdenesDe(v)) = 1
         /\ \A e \in OrdenesDe(v) : db.encargos[e].estado = "ENTREGADO"
    /\ db.ventas[v].tipo_venta = "DIRECTA" => OrdenesDe(v) = {}

\* A payment in the base currency that covers any order of the model.
PagoDeSobra == <<Pago("NIO", 1000, None)>>

\* Every line of order e can be served from the stock of store d.
HayStockPara(d, e) ==
  \A i \in 1..Len(ItemsDeEncargo(d, e)) :
    /\ ItemsDeEncargo(d, e)[i].productoId \in DOMAIN d.productos
    /\ d.productos[ItemsDeEncargo(d, e)[i].productoId].stockDisponible
         >= ItemsDeEncargo(d, e)[i].cantidad

\* C35 (as claimed): every deposit the store holds is of at least one cent,
\* and a PENDIENTE order whose lines are in stock can be finalized by a
\* signed-in user who adds a payment that covers it, whatever deposits were
\* accepted before.
C35_AbonoDeUnCentavoOMas ==
  /\ \A i \in 1..Len(db.encargo_abonos) : db.encargo_abonos[i].monto_cents >= 1
  /\ \A e \in DOMAIN db.encargos :
       (db.encargos[e].estado = "PENDIENTE" /\ HayStockPara(db, e)) =>
         finalizarEncargo(db, uuid.venta + 1, e, PagoDeSobra, "u1",
                          obtenerTasaCambio(db), None).ok

\* The paid total in cents the historical query recomputes for sale v from
\* what it reads back.
PagadoSegunConsulta(d, v) == calcularTotalPagadoCents(obtenerVentaPorId(d, v).pagos)

\* C36 (as claimed): the paid total the historical query recomputes for a
\* sale from its stored payment rows is the paid total settlement computed;
\* so for every sale of the store the recomputed paid total is at least the
\* stored total.
C36_PagadoRecalculado ==
  /\ ((FueVenta \/ FueFinalizar) /\ last.ok) =>
       PagadoSegunConsulta(db, Val(last.ventaId)) = last.totalPagadoCents
  /\ \A v \in DOMAIN db.ventas : PagadoSegunConsulta(db, v) >= db.ventas[v].total_nio


\* C37: when a deposit and a finalization of the same pending order
\* interleave, every deposit committed against the order is among the
\* payment lines of the order's sale: no deposit is recorded against a
\* delivered order without being part of its sale.  The deposits are the
\* first payment rows of the sale, in order, as base-currency lines without
\* rate.
AbonosEnLaVenta(d, e) ==
  LET abonos == FilasDe(d.encargo_abonos, "encargo_id", e)
      pagos == FilasDe(d.venta_pagos, "venta_id", Val(d.encargos[e].venta_id))
  IN /\ Len(abonos) <= Len(pagos)
     /\ \A i \in 1..Len(abonos) :
          /\ pagos[i].moneda = "NIO"
          /\ pagos[i].cantidad_cents = abonos[i].monto_cents
          /\ pagos[i].tasa = None

C37_AbonoContadoEnLaVenta ==
  \A e \in DOMAIN db.encargos :
    db.encargos[e].estado = "ENTREGADO" => AbonosEnLaVenta(db, e)

\* C38: when two finalizations of the same pending order interleave, at
\* most one commits: the order ends delivered with exactly one sale of kind
\* ENCARGO and the stock of its product taken once.
FinalizacionesConfirmadas ==
  {t \in DOMAIN tx : tx[t].op = "finalizarEncargo" /\ tx[t].pc = "confirmada"}

C38_UnaSolaFinalizacion ==
  /\ Cardinality(FinalizacionesConfirmadas) <= 1
  /\ db.encargos[EncargoDisputado].estado = "ENTREGADO" =>
       /\ Cardinality(VentasDeEncargo) = 1
       /\ db.productos["P"].stockDisponible = MaxStock - 1


\* C39: a payment line whose currency code, trimmed and upper-cased, is not
\* USD is counted at face value, toCents of its amount, and stored under
\* its code without a rate, whatever rate it carried; a call whose lines
\* are all such is never rejected for a rate, and succeeds only when the
\* face values cover the total.
EsLocal(pago) == NormalizarMoneda(pago.moneda) # "USD"

TodosLocales(pagos) == \A i \in 1..Len(pagos) : EsLocal(pagos[i])

ValorNominal(pagos) ==
  LET F(p) == toCents(p.cantidad)
  IN SumSeq(MapSeq(pagos, F))

FilasDePago(d, v) == FilasDe(d.venta_pagos, "venta_id", v)

C39_MonedaLocalAlValorNominal ==
  FueVenta =>
    /\ last.ok =>
         LET filas == FilasDePago(db, Val(last.ventaId))
         IN /\ Len(filas) = Len(last.pagos)
            /\ \A i \in 1..Len(filas) :
                 EsLocal(last.pagos[i]) =>
                   /\ filas[i].moneda = NormalizarMoneda(last.pagos[i].moneda)
                   /\ filas[i].tasa = None
                   /\ filas[i].cantidad_cents = toCents(last.pagos[i].cantidad)
    /\ (last.ok /\ TodosLocales(last.pagos)) =>
         /\ last.totalPagadoCents = ValorNominal(last.pagos)
         /\ ValorNominal(last.pagos) >= db.ventas[Val(last.ventaId)].total_nio
    /\ (~last.ok /\ TodosLocales(last.pagos)) => last.err # "TasaInvalida"

\* A sale paid by a line in another currency that carried a rate of zero,
\* and a call rejected because the face value of its line fell short.
C39_Witness ==
  /\ FueVenta
  /\ last.ok
  /\ last.pagos = PagoEURTasaCero
  /\ FilasDePago(db, Val(last.ventaId))[2].moneda = "EUR"

C39_WitnessCorto ==
  /\ FueVenta
  /\ ~last.ok
  /\ last.pagos = PagoEURCorto
  /\ last.err = "PagoInsuficiente"

====
